---- MODULE Spec2Model ----
(***************************************************************************)
(* A model of the filesystem tool server of kellerai-morphmcp              *)
(* (src/unnamed/part_001): path validation, the write / patch / read       *)
(* handlers, the directory walkers, the root-update handler and the pure   *)
(* text functions (tailFile, headFile, applyFileEdits).                    *)
(*                                                                         *)
(* Text is a sequence of one-character strings (UTF-16 code units); a file *)
(* holds a sequence of bytes.  A path is a sequence of names, a name is a  *)
(* sequence of characters; the root directory "/" is the empty path.       *)
(***************************************************************************)
EXTENDS Integers, Sequences, FiniteSets, TLC

VARIABLES
    fs,                 \* the filesystem: canonical path -> node
    allowedDirectories, \* part_001:98  the RootSet, a sequence of paths
    workspaceMode,      \* part_001:54  ENABLE_WORKSPACE_MODE
    tasks,              \* the tool calls in flight, one per slot
    calls,              \* number of tool calls and notifications received so far
    lastWrite,          \* history: the latest write_file call that succeeded
    pure,               \* input and output of the pure-function specifications
    env,                \* part_001:46-56  process.env: ENABLED_TOOLS, MORPH_API_KEY
    indexContent        \* verify-tools.js:37  the built index the verification reads

vars == <<fs, allowedDirectories, workspaceMode, tasks, calls, lastWrite, pure, env, indexContent>>

(***************************************************************************)
(* Tools configuration                                                     *)
(***************************************************************************)
\* part_001:23-39
ALL_TOOLS ==
    <<"read_file", "read_multiple_files", "write_file", "tiny_edit_file",
      "create_directory", "list_directory", "list_directory_with_sizes",
      "directory_tree", "move_file", "search_files", "get_file_info",
      "list_allowed_directories", "edit_file", "warpgrep_codebase_search",
      "codebase_search">>

\* part_001:41-44
DEFAULT_TOOLS == <<"edit_file", "warpgrep_codebase_search">>

\* the cases of the switch before the filesystem handlers were added to it
MorphCases == {"edit_file", "warpgrep_codebase_search", "codebase_search"}

\* part_001:573-1166  the cases of the switch in the CallTool handler
HandlerCases ==
    {"edit_file", "warpgrep_codebase_search", "codebase_search", "read_file",
     "read_multiple_files", "write_file", "tiny_edit_file", "create_directory",
     "list_directory", "list_directory_with_sizes", "directory_tree", "move_file",
     "search_files", "get_file_info", "list_allowed_directories"}

\* part_001:495-548  the array the ListTools handler filters
allTools ==
    <<[name |-> "edit_file", requiresApiKey |-> TRUE],
      [name |-> "warpgrep_codebase_search", requiresApiKey |-> TRUE],
      [name |-> "codebase_search", requiresApiKey |-> TRUE]>>

\* the environment the server is started in by default in this model: every tool
\* enabled, an API key configured.  ENABLED_TOOLS is the value split at ","
\* and trimmed; <<>> stands for a variable that is unset or empty
StartupEnv == [ENABLED_TOOLS |-> <<"all">>, MORPH_API_KEY |-> TRUE]

\* the index as built from this source
BuiltIndex == [ALL_TOOLS |-> ALL_TOOLS, cases |-> HandlerCases]

\* part_001:46-50
ENABLED_TOOLS ==
    IF env.ENABLED_TOOLS # <<>>
    THEN IF env.ENABLED_TOOLS = <<"all">> THEN ALL_TOOLS ELSE env.ENABLED_TOOLS
    ELSE DEFAULT_TOOLS

\* part_001:56
MORPH_API_KEY == env.MORPH_API_KEY

(***************************************************************************)
(* Sequences and text                                                      *)
(***************************************************************************)
Min(a, b) == IF a <= b THEN a ELSE b
Max(a, b) == IF a >= b THEN a ELSE b

Take(s, n) == SubSeq(s, 1, Min(n, Len(s)))
Drop(s, n) == SubSeq(s, n + 1, Len(s))
LastN(s, n) == SubSeq(s, Max(1, Len(s) - n + 1), Len(s))

RECURSIVE Repeat(_, _)
Repeat(c, n) == IF n <= 0 THEN <<>> ELSE <<c>> \o Repeat(c, n - 1)

\* t occurs in s at index i (1-based)
OccursAt(s, t, i) ==
    /\ i >= 1
    /\ i + Len(t) - 1 <= Len(s)
    /\ \A k \in 1..Len(t) : s[i + k - 1] = t[k]

\* String.prototype.indexOf, 1-based; 0 when t does not occur in s
IndexOf(s, t) ==
    IF \E i \in 1..(Len(s) + 1) : OccursAt(s, t, i)
    THEN CHOOSE i \in 1..(Len(s) + 1) :
            /\ OccursAt(s, t, i)
            /\ \A j \in 1..(i - 1) : ~OccursAt(s, t, j)
    ELSE 0

\* String.prototype.lastIndexOf, 1-based; 0 when t does not occur in s
LastIndexOf(s, t) ==
    IF \E i \in 1..(Len(s) + 1) : OccursAt(s, t, i)
    THEN CHOOSE i \in 1..(Len(s) + 1) :
            /\ OccursAt(s, t, i)
            /\ \A j \in (i + 1)..(Len(s) + 1) : ~OccursAt(s, t, j)
    ELSE 0

\* String.prototype.includes
Includes(s, t) == IndexOf(s, t) # 0

\* String.prototype.split on a one-character separator: never empty
RECURSIVE Split(_, _)
Split(s, sep) ==
    LET i == IndexOf(s, <<sep>>)
    IN  IF i = 0 THEN <<s>>
        ELSE <<SubSeq(s, 1, i - 1)>> \o Split(Drop(s, i), sep)

\* Array.prototype.join
RECURSIVE Join(_, _)
Join(parts, sep) ==
    IF Len(parts) = 0 THEN <<>>
    ELSE IF Len(parts) = 1 THEN parts[1]
    ELSE parts[1] \o sep \o Join(Tail(parts), sep)

NL == "\n"
CR == "\r"
SP == " "

\* the characters \s of a regular expression and trim() remove
IsWhitespace(c) == c \in {SP, "\t", NL, CR}

RECURSIVE LeadingWs(_)
\* line.match(/^\s*/)[0]
LeadingWs(s) ==
    IF Len(s) > 0 /\ IsWhitespace(s[1]) THEN <<s[1]>> \o LeadingWs(Tail(s)) ELSE <<>>

TrimStart(s) == Drop(s, Len(LeadingWs(s)))

RECURSIVE TrimEnd(_)
TrimEnd(s) ==
    IF Len(s) > 0 /\ IsWhitespace(s[Len(s)]) THEN TrimEnd(SubSeq(s, 1, Len(s) - 1)) ELSE s

Trim(s) == TrimEnd(TrimStart(s))

(***************************************************************************)
(* UTF-8.  The characters beyond ASCII the model knows are U+00E9 (two     *)
(* bytes C3 A9), U+FFFD (three bytes EF BF BD) and an unpaired surrogate   *)
(* U+D800, which the encoder writes as U+FFFD.  The decoder replaces every *)
(* maximal ill-formed byte run by one U+FFFD.                              *)
(***************************************************************************)
EAcute == "U+00E9"
Replacement == "U+FFFD"
LoneSurrogate == "U+D800"
\* the character U+0060, which a string of this notation cannot hold literally
Backtick == "U+0060"

EncodeChar(c) ==
    CASE c = EAcute -> <<"xC3", "xA9">>
      [] c = Replacement -> <<"xEF", "xBF", "xBD">>
      [] c = LoneSurrogate -> <<"xEF", "xBF", "xBD">>
      [] OTHER -> <<c>>

RECURSIVE Utf8Encode(_)
\* Buffer.from(text, 'utf-8'), as fs.writeFile does with a string
Utf8Encode(text) ==
    IF Len(text) = 0 THEN <<>> ELSE EncodeChar(text[1]) \o Utf8Encode(Tail(text))

RECURSIVE Utf8Decode(_)
\* buffer.toString('utf-8')
Utf8Decode(bytes) ==
    IF Len(bytes) = 0 THEN <<>>
    ELSE LET b == bytes[1]
             n == Len(bytes)
         IN  CASE b = "xC3" ->
                    IF n >= 2 /\ bytes[2] = "xA9"
                    THEN <<EAcute>> \o Utf8Decode(Drop(bytes, 2))
                    ELSE <<Replacement>> \o Utf8Decode(Drop(bytes, 1))
               [] b = "xEF" ->
                    IF n >= 3 /\ bytes[2] = "xBF" /\ bytes[3] = "xBD"
                    THEN <<Replacement>> \o Utf8Decode(Drop(bytes, 3))
                    ELSE IF n >= 2 /\ bytes[2] = "xBF"
                    THEN <<Replacement>> \o Utf8Decode(Drop(bytes, 2))
                    ELSE <<Replacement>> \o Utf8Decode(Drop(bytes, 1))
               [] b \in {"xA9", "xBF", "xBD"} ->
                    <<Replacement>> \o Utf8Decode(Drop(bytes, 1))
               [] OTHER -> <<b>> \o Utf8Decode(Drop(bytes, 1))

\* a normalisation that leaves every line ending as it is
KeepLineEndings(text) == text

\* part_001:317
NormalizeLineEndings(text) ==
    LET RECURSIVE Go(_)
        Go(s) ==
            IF Len(s) = 0 THEN <<>>
            ELSE IF Len(s) >= 2 /\ s[1] = CR /\ s[2] = NL
            THEN <<NL>> \o Go(Drop(s, 2))
            ELSE <<s[1]>> \o Go(Tail(s))
    IN  Go(text)

(***************************************************************************)
(* Paths                                                                   *)
(***************************************************************************)
Dirname(p) == IF Len(p) = 0 THEN <<>> ELSE SubSeq(p, 1, Len(p) - 1)
Basename(p) == IF Len(p) = 0 THEN <<>> ELSE p[Len(p)]

IsPrefixPath(d, p) == Len(d) <= Len(p) /\ SubSeq(p, 1, Len(d)) = d

DotDot == <<".", ".">>
Dot == <<".">>
Tilde == <<"~">>

\* os.homedir()
HomeDir == << <<"h">> >>

\* part_001:91  a leading "~" or "~/" is replaced by the home directory
ExpandHome(raw) ==
    IF Len(raw) > 0 /\ raw[1] = Tilde THEN HomeDir \o Tail(raw) ELSE raw

RECURSIVE NormalizeFrom(_, _)
NormalizeFrom(done, rest) ==
    IF Len(rest) = 0 THEN done
    ELSE IF rest[1] = DotDot THEN NormalizeFrom(Dirname(done), Tail(rest))
    ELSE IF rest[1] = Dot THEN NormalizeFrom(done, Tail(rest))
    ELSE NormalizeFrom(done \o <<rest[1]>>, Tail(rest))

\* path.resolve / path.normalize of an absolute path: "." and ".." are folded
\* lexically, before any symlink is looked at
PathResolve(raw) == NormalizeFrom(<<>>, raw)

\* part_001:88
NormalizePath(p) == PathResolve(p)

(***************************************************************************)
(* The filesystem.  A node is a directory, a regular file (its bytes, and  *)
(* the tasks holding it open for writing) or a symbolic link (its target,  *)
(* an absolute path).  DOMAIN fs is the set of entries that exist.         *)
(***************************************************************************)
DirNode == [kind |-> "dir", content |-> <<>>, target |-> <<>>, open |-> {}]
FileNode(bytes) == [kind |-> "file", content |-> bytes, target |-> <<>>, open |-> {}]
LinkNode(to) == [kind |-> "link", content |-> <<>>, target |-> to, open |-> {}]

Ok(v) == [ok |-> TRUE, val |-> v, err |-> "none"]
Err(e) == [ok |-> FALSE, val |-> <<>>, err |-> e]

\* how many symbolic links one resolution follows before ELOOP
MaxLinks == 3

RECURSIVE WalkPath(_, _, _, _)
WalkPath(f, done, rest, fuel) ==
    IF Len(rest) = 0 THEN Ok(done)
    ELSE LET nxt == done \o <<rest[1]>>
         IN  IF nxt \notin DOMAIN f THEN Err("ENOENT")
             ELSE CASE f[nxt].kind = "link" ->
                         IF fuel = 0 THEN Err("ELOOP")
                         ELSE WalkPath(f, <<>>, PathResolve(f[nxt].target) \o Tail(rest), fuel - 1)
                    [] f[nxt].kind = "dir" -> WalkPath(f, nxt, Tail(rest), fuel)
                    [] OTHER ->
                         IF Len(rest) = 1 THEN Ok(nxt) ELSE Err("ENOTDIR")

\* fs.realpath: every symbolic link on the way is followed
RealPath(f, p) == WalkPath(f, <<>>, p, MaxLinks)

\* part_001:172-194  validatePath: the canonical path of an existing entry, or the
\* canonical parent joined with the last name when the entry does not exist yet
ValidatePath(f, requestedPath) ==
    LET absolute == PathResolve(ExpandHome(requestedPath))
        real == RealPath(f, absolute)
        realParent == RealPath(f, Dirname(absolute))
    IN  IF real.ok THEN real
        ELSE IF real.err = "ENOENT"
        THEN IF realParent.ok
             THEN Ok(realParent.val \o <<Basename(absolute)>>)
             ELSE Err("ParentMissing")
        ELSE real

\* ---- primitives of fs/promises ----

Remove(f, ps) == [q \in DOMAIN f \ ps |-> f[q]]
Put(f, p, node) == [q \in DOMAIN f \cup {p} |-> IF q = p THEN node ELSE f[q]]

\* the canonical place a not-yet-existing entry p would be created at
CreatePlace(f, p) ==
    LET parent == RealPath(f, Dirname(p))
    IN  IF Len(p) = 0 THEN Err("EEXIST")
        ELSE IF ~parent.ok THEN parent
        ELSE IF f[parent.val].kind # "dir" THEN Err("ENOTDIR")
        ELSE Ok(parent.val \o <<Basename(p)>>)

\* fs.readFile(p): the bytes of the file p resolves to
FsReadFile(f, p) ==
    LET real == RealPath(f, p)
    IN  IF ~real.ok THEN real
        ELSE IF f[real.val].kind = "dir" THEN Err("EISDIR")
        ELSE Ok(f[real.val].content)

\* open(p, O_WRONLY | O_CREAT | O_EXCL): flag 'wx'.  An entry of any kind at p, a
\* dangling symbolic link included, is EEXIST.  A new empty file is left open by t
FsOpenExclusive(f, p, t) ==
    LET place == CreatePlace(f, p)
    IN  IF ~place.ok THEN place
        ELSE IF place.val \in DOMAIN f THEN Err("EEXIST")
        ELSE Ok(Put(f, place.val, [FileNode(<<>>) EXCEPT !.open = {t}]))

\* open(p, O_WRONLY | O_CREAT | O_TRUNC): flag 'w'.  An existing file is truncated
\* (through a symbolic link too), a missing one is created empty
FsOpenTruncate(f, p, t) ==
    LET real == RealPath(f, p)
        place == CreatePlace(f, p)
    IN  IF real.ok
        THEN IF f[real.val].kind = "dir" THEN Err("EISDIR")
             ELSE Ok(Put(f, real.val,
                         [f[real.val] EXCEPT !.content = <<>>, !.open = @ \cup {t}]))
        ELSE IF real.err # "ENOENT" THEN real
        ELSE IF ~place.ok THEN place
        ELSE IF place.val \in DOMAIN f THEN Err("ENOENT")  \* a dangling link
        ELSE Ok(Put(f, place.val, [FileNode(<<>>) EXCEPT !.open = {t}]))

\* write(fd, bytes) on the file t holds open: the file's bytes become `bytes`
\* wherever the file is now linked; a file no longer linked changes nothing visible
FsWriteOpen(f, t, bytes) ==
    [q \in DOMAIN f |-> IF t \in f[q].open THEN [f[q] EXCEPT !.content = bytes] ELSE f[q]]

\* close(fd)
FsClose(f, t) ==
    [q \in DOMAIN f |-> [f[q] EXCEPT !.open = @ \ {t}]]

Children(f, p) == {q \in DOMAIN f : Len(q) = Len(p) + 1 /\ IsPrefixPath(p, q)}
Subtree(f, p) == {q \in DOMAIN f : IsPrefixPath(p, q)}

\* a copy of the entry at src to dst that leaves the entry at src in place
FsCopyOver(f, src, dst) ==
    LET from == CreatePlace(f, src)
        to == CreatePlace(f, dst)
    IN  IF ~from.ok \/ from.val \notin DOMAIN f THEN Err("ENOENT")
        ELSE IF ~to.ok THEN to
        ELSE IF f[from.val].kind = "dir" THEN Err("EISDIR")
        ELSE IF to.val \in DOMAIN f /\ f[to.val].kind = "dir" THEN Err("EISDIR")
        ELSE Ok(Put(f, to.val, f[from.val]))

\* rename(src, dst): one step; neither last component is followed.  The entry at
\* dst, if any, is replaced; a directory moves with everything below it
FsRename(f, src, dst) ==
    LET from == CreatePlace(f, src)
        to == CreatePlace(f, dst)
    IN  IF ~from.ok THEN Err("ENOENT")
        ELSE IF from.val \notin DOMAIN f THEN Err("ENOENT")
        ELSE IF ~to.ok THEN to
        ELSE IF from.val = to.val THEN Ok(f)
        ELSE IF IsPrefixPath(from.val, to.val) THEN Err("EINVAL")
        ELSE IF to.val \in DOMAIN f /\ f[to.val].kind = "dir" /\ f[from.val].kind # "dir"
        THEN Err("EISDIR")
        ELSE IF to.val \in DOMAIN f /\ f[to.val].kind # "dir" /\ f[from.val].kind = "dir"
        THEN Err("ENOTDIR")
        ELSE IF to.val \in DOMAIN f /\ Children(f, to.val) # {}
        THEN Err("ENOTEMPTY")
        ELSE LET moved == Subtree(f, from.val)
                 kept == Remove(f, moved \cup {to.val})
                 Moved(q) == to.val \o Drop(q, Len(from.val))
             IN  Ok([q \in DOMAIN kept \cup {Moved(m) : m \in moved} |->
                        IF q \in DOMAIN kept THEN kept[q]
                        ELSE f[CHOOSE m \in moved : Moved(m) = q]])

\* unlink(p)
FsUnlink(f, p) ==
    LET place == CreatePlace(f, p)
    IN  IF ~place.ok THEN place
        ELSE IF place.val \notin DOMAIN f THEN Err("ENOENT")
        ELSE IF f[place.val].kind = "dir" THEN Err("EISDIR")
        ELSE Ok(Remove(f, {place.val}))

(***************************************************************************)
(* StreamingReader: tailFile and headFile, over the bytes of a file        *)
(***************************************************************************)
\* part_001:414  CHUNK_SIZE is 1024 in the program; the model reads smaller chunks
CHUNK_SIZE == 2
\* part_001:464  Buffer.alloc(1024) in the program
HEAD_CHUNK_SIZE == 2

RECURSIVE TailLoop(_, _, _, _, _)
\* part_001:428-450  one iteration per chunk, from the end of the file backwards
TailLoop(bytes, numLines, position, lines, remainingText) ==
    IF ~(position > 0 /\ Len(lines) < numLines) THEN lines
    ELSE LET size == Min(CHUNK_SIZE, position)
             newPosition == position - size
             readData == Utf8Decode(SubSeq(bytes, newPosition + 1, newPosition + size))
             chunkText == readData \o remainingText
             split == Split(NormalizeLineEndings(chunkText), NL)
             chunkLines == IF newPosition > 0 THEN Tail(split) ELSE split
             carried == IF newPosition > 0 THEN split[1] ELSE remainingText
             wanted == Min(Len(chunkLines), numLines - Len(lines))
         IN  TailLoop(bytes, numLines, newPosition,
                      LastN(chunkLines, wanted) \o lines, carried)

\* part_001:413-456
TailFile(bytes, numLines) ==
    IF Len(bytes) = 0 THEN <<>>
    ELSE Join(TailLoop(bytes, numLines, Len(bytes), <<>>, <<>>), <<NL>>)

RECURSIVE HeadLoop(_, _, _, _, _)
\* part_001:466-486  one iteration per chunk, from the start of the file forwards
HeadLoop(bytes, numLines, bytesRead, lines, buffer) ==
    LET size == Min(HEAD_CHUNK_SIZE, Len(bytes) - bytesRead)
        grown == buffer \o Utf8Decode(SubSeq(bytes, bytesRead + 1, bytesRead + size))
        newLineIndex == LastIndexOf(grown, <<NL>>)
        completeLines == Split(SubSeq(grown, 1, newLineIndex - 1), NL)
    IN  IF Len(lines) < numLines /\ size > 0
        THEN IF newLineIndex # 0
             THEN HeadLoop(bytes, numLines, bytesRead + size,
                           lines \o Take(completeLines, numLines - Len(lines)),
                           Drop(grown, newLineIndex))
             ELSE HeadLoop(bytes, numLines, bytesRead + size, lines, grown)
        ELSE IF Len(buffer) > 0 /\ Len(lines) < numLines
        THEN lines \o <<buffer>>
        ELSE lines

\* part_001:458-492
HeadFile(bytes, numLines) == Join(HeadLoop(bytes, numLines, 0, <<>>, <<>>), <<NL>>)

(***************************************************************************)
(* FuzzyPatchEngine: applyFileEdits on a content buffer                    *)
(***************************************************************************)
RECURSIVE ExpandReplacement(_, _, _, _)
\* the replacement patterns String.prototype.replace expands in its second argument:
\* "$$" is "$", "$&" the matched text, "$" with a backtick the text before it,
\* "$" with a quote the text after it
ExpandReplacement(newText, matched, before, after) ==
    IF Len(newText) = 0 THEN <<>>
    ELSE IF newText[1] = "$" /\ Len(newText) >= 2 /\ newText[2] \in {"$", "&", Backtick, "'"}
    THEN (CASE newText[2] = "$" -> <<"$">>
            [] newText[2] = "&" -> matched
            [] newText[2] = Backtick -> before
            [] OTHER -> after)
         \o ExpandReplacement(Drop(newText, 2), matched, before, after)
    ELSE <<newText[1]>> \o ExpandReplacement(Tail(newText), matched, before, after)

\* part_001:336  content.replace(oldText, newText) with a string pattern: the first
\* occurrence only
ReplaceFirst(content, oldText, newText) ==
    LET i == IndexOf(content, oldText)
        before == SubSeq(content, 1, i - 1)
        after == Drop(content, i + Len(oldText) - 1)
    IN  IF i = 0 THEN content
        ELSE before \o ExpandReplacement(newText, oldText, before, after) \o after

\* part_001:346-349  the window of content lines starting at i (1-based) equals the
\* search lines, both sides trimmed
WindowMatches(contentLines, oldLines, i) ==
    \A j \in 1..Len(oldLines) : Trim(oldLines[j]) = Trim(contentLines[i + j - 1])

\* the last matching window, 0 when there is none
LastWindow(contentLines, oldLines) ==
    LET starts == {i \in 1..(Len(contentLines) - Len(oldLines) + 1) :
                      WindowMatches(contentLines, oldLines, i)}
    IN  IF starts = {} THEN 0
        ELSE CHOOSE i \in starts : \A k \in starts : i >= k

\* part_001:343  the first matching window, 0 when there is none
FirstWindow(contentLines, oldLines) ==
    LET starts == {i \in 1..(Len(contentLines) - Len(oldLines) + 1) :
                      WindowMatches(contentLines, oldLines, i)}
    IN  IF starts = {} THEN 0
        ELSE CHOOSE i \in starts : \A k \in starts : i <= k

\* part_001:353-364  the replacement lines, re-indented
ReindentLine(originalIndent, oldLines, line, j) ==
    LET oldIndent == IF j <= Len(oldLines) THEN LeadingWs(oldLines[j]) ELSE <<>>
        newIndent == LeadingWs(line)
        relativeIndent == Len(newIndent) - Len(oldIndent)
    IN  IF j = 1 THEN originalIndent \o TrimStart(line)
        ELSE IF Len(oldIndent) > 0 /\ Len(newIndent) > 0
        THEN originalIndent \o Repeat(SP, Max(0, relativeIndent)) \o TrimStart(line)
        ELSE line

\* part_001:340-370  the whitespace-tolerant match of one edit
FuzzyReplace(content, oldText, newText) ==
    LET oldLines == Split(oldText, NL)
        contentLines == Split(content, NL)
        i == FirstWindow(contentLines, oldLines)
        originalIndent == LeadingWs(contentLines[i])
        split == Split(newText, NL)
        newLines == [j \in 1..Len(split) |-> ReindentLine(originalIndent, oldLines, split[j], j)]
    IN  IF i = 0 THEN Err("NoMatch")
        ELSE Ok(Join(SubSeq(contentLines, 1, i - 1) \o newLines
                     \o Drop(contentLines, i + Len(oldLines) - 1), <<NL>>))

\* part_001:332-373  one edit against the buffer
ApplyEdit(content, edit) ==
    LET normalizedOld == NormalizeLineEndings(edit.oldText)
        normalizedNew == NormalizeLineEndings(edit.newText)
    IN  IF Includes(content, normalizedOld)
        THEN Ok(ReplaceFirst(content, normalizedOld, normalizedNew))
        ELSE FuzzyReplace(content, normalizedOld, normalizedNew)

RECURSIVE ApplyEdits(_, _)
\* part_001:330-374  the edits in list order on modifiedContent; the first that
\* matches nowhere ends the loop: `content` is then the buffer as the edits before it
\* left it, `failed` the oldText the error carries
ApplyEdits(content, edits) ==
    IF Len(edits) = 0 THEN [ok |-> TRUE, content |-> content, failed |-> <<>>]
    ELSE LET one == ApplyEdit(content, edits[1])
         IN  IF one.ok THEN ApplyEdits(one.val, Tail(edits))
             ELSE [ok |-> FALSE, content |-> content, failed |-> edits[1].oldText]

\* a path as text: "/" before every name
RECURSIVE PathText(_)
PathText(p) == IF Len(p) = 0 THEN <<>> ELSE <<"/">> \o p[1] \o PathText(Tail(p))

CommonPrefixLen(a, b) ==
    LET agree == {k \in 0..Min(Len(a), Len(b)) : \A j \in 1..k : a[j] = b[j]}
    IN  CHOOSE k \in agree : \A m \in agree : m <= k

CommonSuffixLen(a, b, skip) ==
    LET agree == {k \in 0..(Min(Len(a), Len(b)) - skip) :
                     \A j \in 1..k : a[Len(a) - j + 1] = b[Len(b) - j + 1]}
    IN  CHOOSE k \in agree : \A m \in agree : m <= k

RECURSIVE Prefixed(_, _)
Prefixed(mark, lines) ==
    IF Len(lines) = 0 THEN <<>>
    ELSE <<mark>> \o lines[1] \o <<NL>> \o Prefixed(mark, Tail(lines))

\* part_001:320-325  createTwoFilesPatch of the package diff: the same path on both
\* sides, then the lines removed and added between the common first and last lines
\* (no hunk when nothing differs)
CreateUnifiedDiff(originalContent, newContent, filepath) ==
    LET a == Split(NormalizeLineEndings(originalContent), NL)
        b == Split(NormalizeLineEndings(newContent), NL)
        pre == CommonPrefixLen(a, b)
        suf == CommonSuffixLen(a, b, pre)
        header == <<"-", "-", "-", SP>> \o PathText(filepath) \o <<NL>>
                  \o <<"+", "+", "+", SP>> \o PathText(filepath) \o <<NL>>
    IN  IF a = b THEN header
        ELSE header \o <<"@", "@", NL>>
             \o Prefixed(SP, SubSeq(a, 1, pre))
             \o Prefixed("-", SubSeq(a, pre + 1, Len(a) - suf))
             \o Prefixed("+", SubSeq(b, pre + 1, Len(b) - suf))
             \o Prefixed(SP, SubSeq(a, Len(a) - suf + 1, Len(a)))

RECURSIVE NumBackticks(_, _)
\* part_001:378-381  one backtick more than the longest run the diff holds, at least 3
NumBackticks(diff, n) ==
    IF Includes(diff, Repeat(Backtick, n)) THEN NumBackticks(diff, n + 1) ELSE n

\* part_001:376-382  the diff in a code fence
FormatDiff(originalContent, modifiedContent, filePath) ==
    LET diff == CreateUnifiedDiff(originalContent, modifiedContent, filePath)
        fence == Repeat(Backtick, NumBackticks(diff, 3))
    IN  fence \o <<"d", "i", "f", "f", NL>> \o diff \o fence \o <<NL, NL>>

(***************************************************************************)
(* DirectoryWalker: searchFiles and the tree builder of directory_tree     *)
(***************************************************************************)
\* String.prototype.toLowerCase on the letters the model's names use
LowerChar(c) ==
    CASE c = "A" -> "a" [] c = "B" -> "b" [] c = "D" -> "d" [] c = "L" -> "l"
      [] c = "N" -> "n" [] c = "S" -> "s" [] c = "W" -> "w" [] OTHER -> c

ToLowerCase(text) == [i \in 1..Len(text) |-> LowerChar(text[i])]

\* the order in which a directory lists its names: by length, then by the first
\* character that differs
CharRank(c) ==
    CASE c = "." -> 1 [] c = "a" -> 2 [] c = "b" -> 3 [] c = "d" -> 4 [] c = "g" -> 5
      [] c = "h" -> 6 [] c = "i" -> 7 [] c = "l" -> 8 [] c = "n" -> 9 [] c = "s" -> 10
      [] c = "t" -> 11 [] c = "w" -> 12 [] c = "1" -> 13 [] c = "2" -> 14
      [] c = "m" -> 15 [] c = "p" -> 16 [] OTHER -> 17

RECURSIVE NameBefore(_, _)
NameBefore(a, b) ==
    IF Len(a) = 0 THEN Len(b) > 0
    ELSE IF Len(b) = 0 THEN FALSE
    ELSE IF a[1] = b[1] THEN NameBefore(Tail(a), Tail(b))
    ELSE CharRank(a[1]) < CharRank(b[1])

RECURSIVE SortNames(_)
SortNames(names) ==
    IF names = {} THEN <<>>
    ELSE LET first == CHOOSE n \in names : \A m \in names \ {n} : NameBefore(n, m)
         IN  <<first>> \o SortNames(names \ {first})

\* a listing that reports a symbolic link to a directory as a directory
FsReaddirFollowing(f, p) ==
    LET real == RealPath(f, p)
        names == SortNames({Basename(q) : q \in Children(f, real.val)})
        Target(name) == RealPath(f, real.val \o <<name>>)
    IN  IF ~real.ok THEN real
        ELSE IF f[real.val].kind # "dir" THEN Err("ENOTDIR")
        ELSE Ok([i \in 1..Len(names) |->
                    [name |-> names[i],
                     isDirectory |-> /\ Target(names[i]).ok
                                     /\ f[Target(names[i]).val].kind = "dir"]])

\* fs.readdir(p, {withFileTypes: true}): the names in p with the kind of each entry
\* itself (a symbolic link is not a directory, whatever it points to)
FsReaddir(f, p) ==
    LET real == RealPath(f, p)
        names == SortNames({Basename(q) : q \in Children(f, real.val)})
    IN  IF ~real.ok THEN real
        ELSE IF f[real.val].kind # "dir" THEN Err("ENOTDIR")
        ELSE Ok([i \in 1..Len(names) |->
                    [name |-> names[i],
                     isDirectory |-> f[real.val \o <<names[i]>>].kind = "dir"]])

RECURSIVE WildMatch(_, _)
\* one name against one pattern part in which "*" stands for any characters
WildMatch(name, pat) ==
    IF Len(pat) = 0 THEN Len(name) = 0
    ELSE IF pat[1] = "*"
    THEN WildMatch(name, Tail(pat)) \/ (Len(name) > 0 /\ WildMatch(Tail(name), pat))
    ELSE Len(name) > 0 /\ name[1] = pat[1] /\ WildMatch(Tail(name), Tail(pat))

GlobStar == <<"*", "*">>

RECURSIVE MatchOne(_, _)
\* minimatch's matchOne over the parts of the path and of the pattern, dot: true
MatchOne(file, pattern) ==
    IF Len(file) = 0 \/ Len(pattern) = 0
    THEN Len(file) = 0 /\ Len(pattern) = 0
    ELSE IF pattern[1] = GlobStar
    THEN IF Len(pattern) = 1
         THEN \A i \in 1..Len(file) : file[i] \notin {Dot, DotDot}
         ELSE \E fr \in 0..(Len(file) - 1) :
                 /\ \A i \in 1..fr : file[i] \notin {Dot, DotDot}
                 /\ MatchOne(Drop(file, fr), Tail(pattern))
    ELSE WildMatch(file[1], pattern[1]) /\ MatchOne(Tail(file), Tail(pattern))

\* minimatch(relativePath, globPattern, {dot: true}); the pattern is text, "/" parts it
Minimatch(relativePath, globPattern) == MatchOne(relativePath, Split(globPattern, "/"))

\* part_001:293-296
ShouldExclude(relativePath, excludePatterns) ==
    \E k \in 1..Len(excludePatterns) :
        LET pattern == excludePatterns[k]
            globPattern == IF Includes(pattern, <<"*">>) THEN pattern
                           ELSE <<"*", "*", "/">> \o pattern \o <<"/", "*", "*">>
        IN  Minimatch(relativePath, globPattern)

RECURSIVE SearchEntries(_, _, _, _, _, _)
\* part_001:284-312  the entries of one directory in turn; an entry that fails
\* validation, or whose subtree cannot be listed, is skipped
SearchEntries(f, rootPath, currentPath, entries, pattern, excludePatterns) ==
    IF Len(entries) = 0 THEN <<>>
    ELSE LET entry == entries[1]
             fullPath == currentPath \o <<entry.name>>
             valid == ValidatePath(f, fullPath)
             relativePath == Drop(fullPath, Len(rootPath))
             below == FsReaddir(f, fullPath)
             here == IF Includes(ToLowerCase(entry.name), ToLowerCase(pattern))
                     THEN <<fullPath>> ELSE <<>>
             inside == IF entry.isDirectory /\ below.ok
                       THEN SearchEntries(f, rootPath, fullPath, below.val,
                                          pattern, excludePatterns)
                       ELSE <<>>
             rest == SearchEntries(f, rootPath, currentPath, Tail(entries),
                                   pattern, excludePatterns)
         IN  IF ~valid.ok \/ ShouldExclude(relativePath, excludePatterns) THEN rest
             ELSE here \o inside \o rest

\* a search that looks at the entries of the root only
SearchFilesShallow(f, rootPath, pattern, excludePatterns) ==
    LET entries == FsReaddir(f, rootPath)
        Matching(entry) == Includes(ToLowerCase(entry.name), ToLowerCase(pattern))
        found == SelectSeq(entries.val, Matching)
    IN  IF ~entries.ok THEN entries
        ELSE Ok([i \in 1..Len(found) |-> rootPath \o <<found[i].name>>])

\* part_001:282-315
SearchFiles(f, rootPath, pattern, excludePatterns) ==
    LET entries == FsReaddir(f, rootPath)
    IN  IF ~entries.ok THEN entries
        ELSE Ok(SearchEntries(f, rootPath, rootPath, entries.val, pattern, excludePatterns))

RECURSIVE BuildTree(_, _)
\* part_001:1105-1121  every directory is validated, then listed; a failure anywhere
\* fails the whole tree
BuildTree(f, currentPath) ==
    LET validPath == ValidatePath(f, currentPath)
        entries == FsReaddir(f, validPath.val)
        Sub(i) == BuildTree(f, currentPath \o <<entries.val[i].name>>)
        failed == {i \in 1..Len(entries.val) : entries.val[i].isDirectory /\ ~Sub(i).ok}
    IN  IF ~validPath.ok THEN validPath
        ELSE IF ~entries.ok THEN entries
        ELSE IF failed # {} THEN Sub(CHOOSE i \in failed : \A k \in failed : i <= k)
        ELSE Ok([i \in 1..Len(entries.val) |->
                    [name |-> entries.val[i].name,
                     type |-> IF entries.val[i].isDirectory THEN "directory" ELSE "file",
                     children |-> IF entries.val[i].isDirectory THEN Sub(i).val ELSE <<>>]])

(***************************************************************************)
(* RootSet                                                                 *)
(***************************************************************************)
\* part_001:129-139
WorkspaceIndicators ==
    { <<".", "g", "i", "t">>, <<".", "v", "s", "c", "o", "d", "e">>,
      <<"p", "a", "c", "k", "a", "g", "e", ".", "j", "s", "o", "n">>,
      <<"C", "a", "r", "g", "o", ".", "t", "o", "m", "l">>,
      <<"p", "y", "p", "r", "o", "j", "e", "c", "t", ".", "t", "o", "m", "l">>,
      <<"g", "o", ".", "m", "o", "d">>, <<".", "c", "u", "r", "s", "o", "r">>,
      <<"t", "s", "c", "o", "n", "f", "i", "g", ".", "j", "s", "o", "n">>,
      <<"c", "o", "m", "p", "o", "s", "e", "r", ".", "j", "s", "o", "n">> }

RECURSIVE ClimbToWorkspace(_, _, _)
ClimbToWorkspace(f, currentPath, startPath) ==
    IF Len(currentPath) = 0 THEN NormalizePath(startPath)
    ELSE IF \E ind \in WorkspaceIndicators : RealPath(f, currentPath \o <<ind>>).ok
    THEN NormalizePath(currentPath)
    ELSE ClimbToWorkspace(f, Dirname(currentPath), startPath)

\* part_001:126-156
DetectWorkspaceRoot(f, startPath) == ClimbToWorkspace(f, PathResolve(startPath), startPath)

RECURSIVE GetValidRootDirectories(_, _)
\* roots-utils.js: the requested roots that resolve to an existing directory, each
\* in canonical form, in request order
GetValidRootDirectories(f, requestedRoots) ==
    IF Len(requestedRoots) = 0 THEN <<>>
    ELSE LET real == RealPath(f, PathResolve(ExpandHome(requestedRoots[1])))
             rest == GetValidRootDirectories(f, Tail(requestedRoots))
         IN  IF real.ok /\ f[real.val].kind = "dir" THEN <<real.val>> \o rest ELSE rest

\* a root update that adds the validated candidates to the roots already held
MergeRootsWithCurrent(f, requestedRoots, current, wsMode, wsRoot) ==
    LET validatedRootDirs == GetValidRootDirectories(f, requestedRoots)
    IN  IF Len(validatedRootDirs) > 0 THEN current \o validatedRootDirs
        ELSE IF wsMode THEN <<DetectWorkspaceRoot(f, wsRoot)>>
        ELSE current

\* part_001:1200-1222  the RootSet after a root-update event
UpdateAllowedDirectoriesFromRoots(f, requestedRoots, current, wsMode, wsRoot) ==
    LET validatedRootDirs == GetValidRootDirectories(f, requestedRoots)
        workspaceDir == DetectWorkspaceRoot(f, wsRoot)
    IN  IF Len(validatedRootDirs) > 0 THEN validatedRootDirs
        ELSE IF wsMode THEN <<workspaceDir>>
        ELSE current

(***************************************************************************)
(* The world the model runs in                                             *)
(***************************************************************************)
nWs == <<"w", "s">>
nGit == <<".", "g", "i", "t">>
pWs == <<nWs>>
pGit == <<nWs, nGit>>
pA == <<nWs, <<"a">> >>
pD == <<nWs, <<"d">> >>
pB == <<nWs, <<"d">>, <<"b">> >>
pL == <<nWs, <<"l">> >>
pN == <<nWs, <<"n">> >>
pH == << <<"h">> >>
pS == << <<"h">>, <<"s">> >>

ContentA == <<"f", "o", "o", NL, "b", "a", "r", NL>>
ContentB == <<"b">>
ContentS == <<"s", "e", "c", "r", "e", "t">>

\* /ws holds a.txt-like file a, a directory d with a file b, the marker .git and a
\* symbolic link l to the home directory /h, which lies outside /ws and holds s
InitFs ==
    ( <<>> :> DirNode ) @@ ( pWs :> DirNode ) @@ ( pGit :> DirNode )
    @@ ( pA :> FileNode(Utf8Encode(ContentA)) ) @@ ( pD :> DirNode )
    @@ ( pB :> FileNode(Utf8Encode(ContentB)) ) @@ ( pL :> LinkNode(pH) )
    @@ ( pH :> DirNode ) @@ ( pS :> FileNode(Utf8Encode(ContentS)) )

\* part_001:53
WORKSPACE_ROOT == pD

\* part_001:98-124  the RootSet at startup, from the command-line directories
StartupDirectories(f, args, wsMode) ==
    LET fromArgs == [i \in 1..Len(args) |->
                        LET absolute == PathResolve(ExpandHome(args[i]))
                            resolved == RealPath(f, absolute)
                        IN  IF resolved.ok THEN NormalizePath(resolved.val)
                            ELSE NormalizePath(absolute)]
    IN  IF wsMode /\ Len(args) = 0
        THEN fromArgs \o <<DetectWorkspaceRoot(f, WORKSPACE_ROOT)>>
        ELSE fromArgs

StartupArgs == { <<>>, <<pWs>> }

\* the tool calls the model's clients make
Tasks == {1, 2}
MaxCalls == 3

None == <<>>
Some(n) == <<n>>
\* a number that is present, 0 or not
Present(opt) == Len(opt) = 1
\* a number that is present and not 0
Truthy(opt) == Len(opt) = 1 /\ opt[1] # 0

NoRequest ==
    [path |-> <<>>, head |-> None, tail |-> None, content |-> <<>>, edits |-> <<>>,
     dryRun |-> FALSE, pattern |-> <<>>, excludePatterns |-> <<>>,
     paths |-> <<>>, source |-> <<>>, destination |-> <<>>, name |-> "none",
     roots |-> <<>>]

Idle ==
    [pc |-> "idle", op |-> "none", args |-> NoRequest, seq |-> 0,
     validPath |-> <<>>, payload |-> <<>>, written |-> 0, original |-> <<>>,
     result |-> Err("pending"), touched |-> {}]

Edit(old, new) == [oldText |-> old, newText |-> new]

ReadPaths == {pA, pN, <<nWs, <<"l">>, <<"s">> >>, pS, <<nWs, DotDot, <<"h">>, <<"s">> >>,
              <<Tilde, <<"s">> >>, <<nWs, <<"x">>, <<"y">> >>, pD}
ReadOptions == {<<None, None>>, <<Some(1), None>>, <<None, Some(2)>>, <<Some(1), Some(1)>>}
WritePaths == {pA, pN, <<nWs, <<"l">>, <<"s">> >>}
WriteContents == { <<"x">>, <<"y", LoneSurrogate>> }
EditPaths == {pA}
EditLists ==
    { << Edit(<<"f", "o", "o">>, <<"b", "a", "z">>) >>,
      << Edit(<<SP, "b", "a", "r">>, <<"q", "u", "x">>) >>,
      << Edit(<<"f", "o", "o">>, <<"b", "a", "z">>), Edit(<<"z", "z">>, <<"q">>) >> }
SearchRoots == {pWs, pA}
SearchPatterns == { <<>>, <<"B">> }
SearchExcludes == { <<>>, << <<"d">> >> }
TreePaths == {pWs, pL}
RootRequests == { <<>>, <<pD>>, <<pA, <<nWs, <<"l">> >> >> }

(***************************************************************************)
(* The tool-call handlers.  A call is received in a free slot and runs to  *)
(* its result in steps, one per awaited filesystem operation; `touched`    *)
(* records the filesystem operations the call has made.                    *)
(***************************************************************************)
Free(t) == tasks[t].pc = "idle" /\ calls < MaxCalls

Received(t, op, args) == [Idle EXCEPT !.op = op, !.args = args, !.seq = calls + 1]

\* part_001:172-177  the call of validatePath on the path of the request: it resolves
\* the path on the filesystem with fs.realpath
Validating(task) ==
    [task EXCEPT !.touched = @ \cup {<<"realpath", PathResolve(ExpandHome(task.args.path))>>}]

Finish(task, result) == [task EXCEPT !.pc = "done", !.result = result]

\* the target itself taken as the file to write
TargetAsTempPath(validPath, t) == validPath

\* one temporary file per target, the same for every call
SharedTempPath(validPath, t) ==
    Dirname(validPath) \o <<Basename(validPath) \o <<".", "t", "m", "p">> >>

\* part_001:387, part_001:989  the sibling temporary file; the task's number stands
\* for the 16 random bytes
TempPath(validPath, t) ==
    Dirname(validPath) \o <<Basename(validPath) \o <<".", ToString(t), ".", "t", "m", "p">> >>

\* part_001:925-933  read_file up to the first filesystem read
ReadFileBegin(task, f) ==
    LET validPath == ValidatePath(f, task.args.path)
        resolved == Validating(task)
    IN  IF ~validPath.ok THEN Finish(resolved, validPath)
        ELSE IF Truthy(task.args.head) /\ Truthy(task.args.tail)
        THEN Finish(resolved, Err("BothHeadTail"))
        ELSE [resolved EXCEPT !.pc = "read", !.validPath = validPath.val]

ReadFileCall(t, path, head, tail) ==
    /\ Free(t)
    /\ tasks' = [tasks EXCEPT ![t] =
                    ReadFileBegin(Received(t, "read_file",
                        [NoRequest EXCEPT !.path = path, !.head = head, !.tail = tail]), fs)]
    /\ calls' = calls + 1
    /\ UNCHANGED <<fs, allowedDirectories, workspaceMode, lastWrite, pure, env, indexContent>>

\* part_001:934-951  the text a read returns from the bytes of the file
ReadText(bytes, head, tail) ==
    IF Truthy(tail) THEN TailFile(bytes, tail[1])
    ELSE IF Truthy(head) THEN HeadFile(bytes, head[1])
    ELSE Utf8Decode(bytes)

ReadFileStep(t) ==
    LET task == tasks[t]
        bytes == FsReadFile(fs, task.validPath)
        after == [task EXCEPT !.touched = @ \cup {<<"read", task.validPath>>}]
    IN  /\ task.pc = "read"
        /\ tasks' = [tasks EXCEPT ![t] =
                        IF bytes.ok
                        THEN Finish(after, Ok(ReadText(bytes.val, task.args.head, task.args.tail)))
                        ELSE Finish(after, bytes)]
        /\ UNCHANGED <<fs, allowedDirectories, workspaceMode, calls, lastWrite, pure, env, indexContent>>

\* part_001:973-978
WriteFileCall(t, path, content) ==
    LET task == Validating(Received(t, "write_file",
                    [NoRequest EXCEPT !.path = path, !.content = content]))
        validPath == ValidatePath(fs, path)
    IN  /\ Free(t)
        /\ tasks' = [tasks EXCEPT ![t] =
                        IF validPath.ok
                        THEN [task EXCEPT !.pc = "create", !.validPath = validPath.val,
                                          !.payload = Utf8Encode(content),
                                          !.result = Ok(<<>>)]
                        ELSE Finish(task, validPath)]
        /\ calls' = calls + 1
        /\ UNCHANGED <<fs, allowedDirectories, workspaceMode, lastWrite, pure, env, indexContent>>

\* a failed exclusive create taken for a finished write
SwallowCreateFailure(task, opened) == Finish(task, task.result)

\* part_001:984-1004  after the exclusive create failed: an existing target is
\* overwritten through a temporary file, any other error is the call's result
AfterCreateFailure(task, opened) ==
    IF opened.err = "EEXIST" THEN [task EXCEPT !.pc = "temp"] ELSE Finish(task, opened)

\* part_001:982  the exclusive create of fs.writeFile(validPath, content, {flag: 'wx'}):
\* the file is opened (created empty), written in the steps WriteFill, then closed
WriteCreate(t) ==
    LET task == tasks[t]
        opened == FsOpenExclusive(fs, task.validPath, t)
        after == [task EXCEPT !.touched = @ \cup {<<"create", task.validPath>>}]
    IN  /\ task.pc = "create"
        /\ IF opened.ok
           THEN /\ fs' = opened.val
                /\ tasks' = [tasks EXCEPT ![t] = [after EXCEPT !.pc = "fill"]]
           ELSE /\ fs' = fs
                /\ tasks' = [tasks EXCEPT ![t] = AfterCreateFailure(after, opened)]
        /\ UNCHANGED <<allowedDirectories, workspaceMode, calls, lastWrite, pure, env, indexContent>>

\* the bytes of the payload reach the open file in one write or in several
WriteFill(t) ==
    LET task == tasks[t]
        size == Len(task.payload)
    IN  /\ task.pc \in {"fill", "tempfill"}
        /\ \E k \in task.written..size :
              /\ k > task.written \/ k = size
              /\ fs' = IF k = size THEN FsClose(FsWriteOpen(fs, t, task.payload), t)
                       ELSE FsWriteOpen(fs, t, Take(task.payload, k))
              /\ tasks' = [tasks EXCEPT ![t] =
                              IF k < size THEN [task EXCEPT !.written = k]
                              ELSE IF task.pc = "tempfill"
                              THEN [task EXCEPT !.written = k, !.pc = "rename"]
                              ELSE Finish([task EXCEPT !.written = k], task.result)]
        /\ UNCHANGED <<allowedDirectories, workspaceMode, calls, lastWrite, pure, env, indexContent>>

\* a cleanup that leaves the temporary file where it is
KeepTemporaryFile(f, p) == f

\* part_001:996, part_001:394  best-effort removal of the temporary file
UnlinkQuietly(f, p) ==
    LET gone == FsUnlink(f, p) IN IF gone.ok THEN gone.val ELSE f

\* part_001:989-991, part_001:387-389  fs.writeFile(tempPath, ...): the open
TempOpen(t) ==
    LET task == tasks[t]
        tempPath == TempPath(task.validPath, t)
        opened == FsOpenTruncate(fs, tempPath, t)
        after == [task EXCEPT !.written = 0, !.touched = @ \cup {<<"create", tempPath>>}]
    IN  /\ task.pc = "temp"
        /\ IF opened.ok
           THEN /\ fs' = opened.val
                /\ tasks' = [tasks EXCEPT ![t] = [after EXCEPT !.pc = "tempfill"]]
           ELSE /\ fs' = UnlinkQuietly(fs, tempPath)
                /\ tasks' = [tasks EXCEPT ![t] = Finish(after, opened)]
        /\ UNCHANGED <<allowedDirectories, workspaceMode, calls, lastWrite, pure, env, indexContent>>

\* part_001:992-1000, part_001:390-398  fs.rename(tempPath, target)
TempRename(t) ==
    LET task == tasks[t]
        tempPath == TempPath(task.validPath, t)
        renamed == FsRename(fs, tempPath, task.validPath)
        after == [task EXCEPT !.touched = @ \cup {<<"rename", task.validPath>>}]
    IN  /\ task.pc = "rename"
        /\ IF renamed.ok
           THEN /\ fs' = renamed.val
                /\ tasks' = [tasks EXCEPT ![t] = Finish(after, task.result)]
           ELSE /\ fs' = UnlinkQuietly(fs, tempPath)
                /\ tasks' = [tasks EXCEPT ![t] = Finish(after, renamed)]
        /\ UNCHANGED <<allowedDirectories, workspaceMode, calls, lastWrite, pure, env, indexContent>>

\* part_001:1010-1016
EditFileCall(t, path, edits, dryRun) ==
    LET task == Validating(Received(t, "tiny_edit_file",
                    [NoRequest EXCEPT !.path = path, !.edits = edits, !.dryRun = dryRun]))
        validPath == ValidatePath(fs, path)
    IN  /\ Free(t)
        /\ tasks' = [tasks EXCEPT ![t] =
                        IF validPath.ok
                        THEN [task EXCEPT !.pc = "edit", !.validPath = validPath.val]
                        ELSE Finish(task, validPath)]
        /\ calls' = calls + 1
        /\ UNCHANGED <<fs, allowedDirectories, workspaceMode, lastWrite, pure, env, indexContent>>

\* a patch that is written back whether or not every edit matched
PersistsUnlessDryRun(applied, dryRun) == ~dryRun

\* a patch that is written back whenever every edit matched, dry run or not
PersistsWhenApplied(applied, dryRun) == applied.ok

\* part_001:371-373, part_001:383  an edit that matches nowhere ends the call before
\* anything is written; a dry run writes nothing either
PersistsResult(applied, dryRun) == applied.ok /\ ~dryRun

\* part_001:326-383  applyFileEdits from the read to the choice of persisting
EditFileStep(t) ==
    LET task == tasks[t]
        bytes == FsReadFile(fs, task.validPath)
        content == NormalizeLineEndings(Utf8Decode(bytes.val))
        applied == ApplyEdits(content, task.args.edits)
        outcome == IF applied.ok
                   THEN Ok(FormatDiff(content, applied.content, task.validPath))
                   ELSE [ok |-> FALSE, val |-> applied.failed, err |-> "NoMatch"]
        after == [task EXCEPT !.touched = @ \cup {<<"read", task.validPath>>},
                              !.original = IF bytes.ok THEN bytes.val ELSE <<>>]
    IN  /\ task.pc = "edit"
        /\ tasks' = [tasks EXCEPT ![t] =
                        IF ~bytes.ok THEN Finish(after, bytes)
                        ELSE IF PersistsResult(applied, task.args.dryRun)
                        THEN [after EXCEPT !.pc = "temp", !.payload = Utf8Encode(applied.content),
                                           !.result = outcome]
                        ELSE Finish(after, outcome)]
        /\ UNCHANGED <<fs, allowedDirectories, workspaceMode, calls, lastWrite, pure, env, indexContent>>

\* part_001:1142-1152
SearchFilesCall(t, path, pattern, excludePatterns) ==
    LET task == Validating(Received(t, "search_files",
                    [NoRequest EXCEPT !.path = path, !.pattern = pattern,
                                      !.excludePatterns = excludePatterns]))
        validPath == ValidatePath(fs, path)
        found == SearchFiles(fs, validPath.val, pattern, excludePatterns)
    IN  /\ Free(t)
        /\ tasks' = [tasks EXCEPT ![t] =
                        IF ~validPath.ok THEN Finish(task, validPath)
                        ELSE Finish([task EXCEPT !.validPath = validPath.val,
                                        !.touched = @ \cup {<<"readdir", validPath.val>>}],
                                    found)]
        /\ calls' = calls + 1
        /\ UNCHANGED <<fs, allowedDirectories, workspaceMode, lastWrite, pure, env, indexContent>>

\* part_001:1100-1129
DirectoryTreeCall(t, path) ==
    LET task == Validating(Received(t, "directory_tree", [NoRequest EXCEPT !.path = path]))
        validPath == ValidatePath(fs, path)
    IN  /\ Free(t)
        /\ tasks' = [tasks EXCEPT ![t] =
                        IF ~validPath.ok THEN Finish(task, validPath)
                        ELSE Finish([task EXCEPT !.validPath = validPath.val,
                                        !.touched = @ \cup {<<"readdir", validPath.val>>}],
                                    BuildTree(fs, path))]
        /\ calls' = calls + 1
        /\ UNCHANGED <<fs, allowedDirectories, workspaceMode, lastWrite, pure, env, indexContent>>

\* part_001:1224-1235  the roots/list_changed notification with the roots the client
\* then lists
RootsListChanged(requestedRoots) ==
    /\ calls < MaxCalls
    /\ allowedDirectories' = UpdateAllowedDirectoriesFromRoots(
            fs, requestedRoots, allowedDirectories, workspaceMode, WORKSPACE_ROOT)
    /\ calls' = calls + 1
    /\ UNCHANGED <<fs, workspaceMode, tasks, lastWrite, pure, env, indexContent>>

\* the result has been returned to the client; lastWrite remembers a write_file
\* call that reported success
Retire(t) ==
    /\ tasks[t].pc = "done"
    /\ tasks' = [tasks EXCEPT ![t] = Idle]
    /\ lastWrite' = IF tasks[t].op = "write_file" /\ tasks[t].result.ok
                    THEN [seq |-> tasks[t].seq, path |-> tasks[t].validPath,
                          content |-> tasks[t].args.content]
                    ELSE lastWrite
    /\ UNCHANGED <<fs, allowedDirectories, workspaceMode, calls, pure, env, indexContent>>

NoWrite == [seq |-> 0, path |-> <<>>, content |-> <<>>]
NoPure == [fn |-> "none", text |-> <<>>, n |-> 0, out |-> <<>>]

Init ==
    /\ fs = InitFs
    /\ workspaceMode \in BOOLEAN
    /\ \E args \in StartupArgs :
          allowedDirectories = StartupDirectories(InitFs, args, workspaceMode)
    /\ tasks = [t \in Tasks |-> Idle]
    /\ calls = 0
    /\ lastWrite = NoWrite
    /\ pure = NoPure
    /\ env = StartupEnv
    /\ indexContent = BuiltIndex

\* one call at a time, in the first slot
Alone(t) == t = 1 /\ \A u \in Tasks : tasks[u].pc = "idle"

Next ==
    \/ \E t \in Tasks :
          \/ \E path \in ReadPaths, o \in ReadOptions :
                Alone(t) /\ ReadFileCall(t, path, o[1], o[2])
          \/ ReadFileStep(t)
          \/ \E path \in WritePaths, content \in WriteContents :
                Alone(t) /\ WriteFileCall(t, path, content)
          \/ WriteCreate(t)
          \/ WriteFill(t)
          \/ TempOpen(t)
          \/ TempRename(t)
          \/ \E path \in EditPaths, edits \in EditLists, dryRun \in BOOLEAN :
                Alone(t) /\ EditFileCall(t, path, edits, dryRun)
          \/ EditFileStep(t)
          \/ \E path \in SearchRoots, pattern \in SearchPatterns, ex \in SearchExcludes :
                Alone(t) /\ SearchFilesCall(t, path, pattern, ex)
          \/ \E path \in TreePaths : Alone(t) /\ DirectoryTreeCall(t, path)
          \/ Retire(t)
    \/ \E requestedRoots \in RootRequests : RootsListChanged(requestedRoots)

Spec == Init /\ [][Next]_vars

(***************************************************************************)
(* The streaming readers on their own: a file text is drawn, stored as its *)
(* UTF-8 bytes, and tailFile or headFile is applied to the bytes.          *)
(***************************************************************************)
MaxTextLen == 4
MaxLines == 3
StreamAlphabet == {"a", NL, EAcute}
StreamTexts == UNION { [1..k -> StreamAlphabet] : k \in 0..MaxTextLen }

InitStream ==
    /\ fs = InitFs
    /\ workspaceMode = TRUE
    /\ allowedDirectories = StartupDirectories(InitFs, <<pWs>>, TRUE)
    /\ tasks = [t \in Tasks |-> Idle]
    /\ calls = 0
    /\ lastWrite = NoWrite
    /\ \E text \in StreamTexts, n \in 1..MaxLines :
          pure = [fn |-> "none", text |-> text, n |-> n, out |-> <<>>]
    /\ env = StartupEnv
    /\ indexContent = BuiltIndex

\* part_001:938-942  read_file with tail on a file holding the text
TailApply ==
    /\ pure.fn = "none"
    /\ pure' = [pure EXCEPT !.fn = "tail", !.out = TailFile(Utf8Encode(pure.text), pure.n)]
    /\ UNCHANGED <<fs, allowedDirectories, workspaceMode, tasks, calls, lastWrite, env, indexContent>>

\* part_001:943-947  read_file with head on a file holding the text
HeadApply ==
    /\ pure.fn = "none"
    /\ pure' = [pure EXCEPT !.fn = "head", !.out = HeadFile(Utf8Encode(pure.text), pure.n)]
    /\ UNCHANGED <<fs, allowedDirectories, workspaceMode, tasks, calls, lastWrite, env, indexContent>>

NextStream == TailApply \/ HeadApply

SpecStream == InitStream /\ [][NextStream]_vars

\* the text a full read of the file returns
FullRead(text) == Utf8Decode(Utf8Encode(text))

\* the lines of a text as the pieces between its newlines
PiecesOf(text) == Split(text, NL)

\* the lines of a text, a final newline ending the last line
LinesOf(text) ==
    IF Len(text) = 0 THEN <<>>
    ELSE IF text[Len(text)] = NL THEN Split(Take(text, Len(text) - 1), NL)
    ELSE Split(text, NL)

\* C8: tail(p, n) for n >= 1 is the last min(n, available) lines of a full read of
\* p, in order, the lines being the newline-delimited pieces of the text (the
\* reading under which a file without multi-byte characters is tailed correctly).
TailIsLastLinesOfRead ==
    pure.fn = "tail" =>
        pure.out = Join(LastN(PiecesOf(FullRead(pure.text)), pure.n), <<NL>>)

\* C9: head(p, n) for n >= 1 is the first min(n, available) lines of a full read of
\* p, in order, a trailing partial line counting as the final line.
HeadIsFirstLinesOfRead ==
    pure.fn = "head" =>
        pure.out = Join(Take(LinesOf(FullRead(pure.text)), pure.n), <<NL>>)

(***************************************************************************)
(* Properties of the tool calls, checked under Spec                        *)
(***************************************************************************)
\* the RootSet holds p or a directory above p
Inside(p, roots) == \E i \in 1..Len(roots) : IsPrefixPath(roots[i], p)

\* C1: with a RootSet that holds some root, every operation given a path whose
\* canonical, symlink-resolved form is neither a root nor below one fails with
\* PathEscape and neither reads nor changes anything at that path, a path reached
\* through a symlink that lies inside a root included.  (A read asking for both head
\* and tail is left aside: it is refused for its arguments.)
EscapingPathRejected ==
    \A t \in Tasks :
        LET task == tasks[t]
            canonical == ValidatePath(fs, task.args.path)
        IN  (/\ task.pc = "done"
             /\ task.op \in {"read_file", "write_file", "tiny_edit_file",
                             "search_files", "directory_tree"}
             /\ ~(Len(task.args.head) = 1 /\ Len(task.args.tail) = 1)
             /\ Len(allowedDirectories) > 0
             /\ canonical.ok
             /\ ~Inside(canonical.val, allowedDirectories))
            => /\ ~task.result.ok
               /\ task.result.err = "PathEscape"
               /\ \A access \in task.touched : access[1] = "realpath"

\* an edit matches a buffer exactly, or on a window of lines compared after
\* trimming each line
EditMatches(buffer, edit) ==
    LET old == NormalizeLineEndings(edit.oldText)
        oldLines == Split(old, NL)
        lines == Split(buffer, NL)
    IN  \/ Includes(buffer, old)
        \/ \E i \in 1..(Len(lines) - Len(oldLines) + 1) :
              \A j \in 1..Len(oldLines) : Trim(oldLines[j]) = Trim(lines[i + j - 1])

\* the edits of a list that meet a buffer they do not match, the edits before them
\* having been applied
UnmatchedEdits(content, edits) ==
    {k \in 1..Len(edits) :
        LET before == ApplyEdits(content, SubSeq(edits, 1, k - 1))
        IN  before.ok /\ ~EditMatches(before.content, edits[k])}

\* C4: a patch call with an edit that matches its buffer neither exactly nor
\* fuzzily fails with an error carrying that edit's search text, and leaves the file
\* byte-identical: no temporary file is created, nothing is renamed, and no earlier
\* edit of the call is persisted.
FailedPatchChangesNothing ==
    \A t \in Tasks :
        LET task == tasks[t]
            content == NormalizeLineEndings(Utf8Decode(task.original))
            unmatched == UnmatchedEdits(content, task.args.edits)
        IN  (/\ task.pc = "done"
             /\ task.op = "tiny_edit_file"
             /\ <<"read", task.validPath>> \in task.touched
             /\ unmatched # {})
            => /\ ~task.result.ok
               /\ \E k \in unmatched : task.result.val = task.args.edits[k].oldText
               /\ FsReadFile(fs, task.validPath) = Ok(task.original)
               /\ TempPath(task.validPath, t) \notin DOMAIN fs
               /\ \A access \in task.touched : access[1] \notin {"create", "rename"}

\* C4 witness: a patch whose first edit matched and whose second did not has failed
FailedPatchAfterMatchingEdit ==
    \E t \in Tasks :
        /\ tasks[t].pc = "done"
        /\ tasks[t].op = "tiny_edit_file"
        /\ ~tasks[t].args.dryRun
        /\ Len(tasks[t].args.edits) = 2
        /\ 2 \in UnmatchedEdits(NormalizeLineEndings(Utf8Decode(tasks[t].original)),
                                tasks[t].args.edits)

RECURSIVE EntryPaths(_, _)
\* the paths of the entries of a directory tree listed under base
EntryPaths(base, entries) ==
    UNION { {base \o <<entries[i].name>>}
            \cup EntryPaths(base \o <<entries[i].name>>, entries[i].children) :
            i \in 1..Len(entries) }

\* the paths a finished search returned or a finished tree walk listed
WalkedPaths(task) ==
    IF task.op = "search_files"
    THEN {task.result.val[i] : i \in 1..Len(task.result.val)}
    ELSE EntryPaths(task.validPath, task.result.val)

\* C5: a search or tree walk started inside the RootSet never lists, enters or
\* returns a path whose canonical form lies outside every root, a symlink in the
\* walked tree that points outside notwithstanding.
WalkStaysInside ==
    \A t \in Tasks :
        LET task == tasks[t]
        IN  (/\ task.pc = "done"
             /\ task.op \in {"search_files", "directory_tree"}
             /\ task.result.ok
             /\ Inside(task.validPath, allowedDirectories))
            => \A p \in WalkedPaths(task) :
                  LET real == RealPath(fs, p)
                  IN  real.ok => Inside(real.val, allowedDirectories)

\* C6: a root update whose candidates yield at least one valid directory leaves the
\* RootSet equal to exactly the validated candidates, whatever it held before;
\* one that yields none, with workspace discovery enabled, leaves it holding the
\* discovered workspace root alone.
RootsReplacedWholesale ==
    [][\A requestedRoots \in RootRequests :
          RootsListChanged(requestedRoots) =>
              LET validated == GetValidRootDirectories(fs, requestedRoots)
              IN  /\ Len(validated) > 0 => allowedDirectories' = validated
                  /\ (Len(validated) = 0 /\ workspaceMode) =>
                        /\ Len(allowedDirectories') = 1
                        /\ allowedDirectories'[1] = DetectWorkspaceRoot(fs, WORKSPACE_ROOT)]_vars

\* C6 witness: the RootSet holds the one validated candidate /ws/d, which no startup
\* gives it
RootsReplacedByCandidate == allowedDirectories = <<pD>> /\ calls > 0

\* a finished read, without head or tail, of the path the call just before wrote
ReadsBackLastWrite(task) ==
    /\ task.pc = "done"
    /\ task.op = "read_file"
    /\ task.result.ok
    /\ task.args.head = None
    /\ task.args.tail = None
    /\ lastWrite.seq + 1 = task.seq
    /\ lastWrite.path = task.validPath

\* C7 as stated: a read of p, without head or tail, that follows a successful write
\* of c to p returns exactly c.
ReadReturnsWritten ==
    \A t \in Tasks :
        ReadsBackLastWrite(tasks[t]) => tasks[t].result.val = lastWrite.content

\* C7: a read of p, without head or tail, that follows a successful write of c to
\* p returns c with every unpaired surrogate code unit replaced by U+FFFD, which is
\* exactly c when c has no unpaired surrogate; p may be new or have held other
\* content, and c may have been written twice.
ReadReturnsWrittenScalars ==
    \A t \in Tasks :
        ReadsBackLastWrite(tasks[t]) =>
            tasks[t].result.val =
                [i \in 1..Len(lastWrite.content) |->
                    IF lastWrite.content[i] = LoneSurrogate THEN Replacement
                    ELSE lastWrite.content[i]]

\* C7 witness: the file /ws/a, which held other content, is read back after "x" was
\* written to it
ReadBackOverwrittenFile ==
    \E t \in Tasks :
        /\ ReadsBackLastWrite(tasks[t])
        /\ lastWrite.path = pA
        /\ lastWrite.content = <<"x">>

\* C10: a read request with both head and tail fails with InvalidArgument before
\* any filesystem access: no path resolution, stat, open or read is made for it,
\* whether or not the path exists or lies inside the RootSet.
BothHeadTailRejectedFirst ==
    \A t \in Tasks :
        LET task == tasks[t]
        IN  (/\ task.op = "read_file"
             /\ Len(task.args.head) = 1
             /\ Len(task.args.tail) = 1)
            => /\ task.pc = "done"
               /\ task.result.err = "BothHeadTail"
               /\ task.touched = {}

(***************************************************************************)
(* Two calls in flight at once: the handlers of two requests interleave at *)
(* every awaited filesystem operation.                                     *)
(***************************************************************************)
ConcPaths == {pA, pN}
ConcContents == { <<"x", "y">>, <<"z", "w">> }
ConcEdits == { << Edit(<<"f", "o", "o">>, <<"b", "a", "z">>) >>,
               << Edit(<<"b", "a", "r">>, <<"q">>), Edit(<<"z", "z">>, <<"q">>) >> }

InitConc ==
    /\ fs = InitFs
    /\ workspaceMode = TRUE
    /\ allowedDirectories = StartupDirectories(InitFs, <<pWs>>, TRUE)
    /\ tasks = [t \in Tasks |-> Idle]
    /\ calls = 0
    /\ lastWrite = NoWrite
    /\ pure = NoPure
    /\ env = StartupEnv
    /\ indexContent = BuiltIndex

NextConc ==
    \E t \in Tasks :
        \/ \E path \in ConcPaths : ReadFileCall(t, path, None, None)
        \/ ReadFileStep(t)
        \/ \E path \in ConcPaths, content \in ConcContents : WriteFileCall(t, path, content)
        \/ WriteCreate(t)
        \/ WriteFill(t)
        \/ TempOpen(t)
        \/ TempRename(t)
        \/ \E edits \in ConcEdits : EditFileCall(t, pA, edits, FALSE)
        \/ EditFileStep(t)

SpecConc == InitConc /\ [][NextConc]_vars

\* the calls that have renamed their temporary file onto p
Replacers(p) ==
    {t \in Tasks : /\ tasks[t].pc = "done"
                   /\ tasks[t].result.ok
                   /\ <<"rename", p>> \in tasks[t].touched}

\* C2: while write_file and non-dry-run patches run against the existing file
\* /ws/a, in any interleaving and at every step (so wherever the process might
\* stop), /ws/a exists, is never open for writing, and holds either its complete
\* old content or the complete new content of a call that renamed its temporary
\* file onto it.
OverwriteNeverInPlace ==
    /\ pA \in DOMAIN fs
    /\ fs[pA].kind = "file"
    /\ fs[pA].open = {}
    /\ fs[pA].content \in {Utf8Encode(ContentA)} \cup {tasks[t].payload : t \in Replacers(pA)}

\* C2 witness: an overwrite of /ws/a has its temporary file completely written and
\* not yet renamed, and /ws/a still holds the old content
TempWrittenBeforeRename ==
    \E t \in Tasks :
        /\ tasks[t].pc = "rename"
        /\ tasks[t].validPath = pA
        /\ tasks[t].op = "write_file"
        /\ \E q \in DOMAIN fs :
              /\ q # pA
              /\ Dirname(q) = Dirname(pA)
              /\ fs[q].content = tasks[t].payload
        /\ fs[pA].content = Utf8Encode(ContentA)

\* C3: while write_file creates /ws/n, which does not exist yet, the path is at
\* every step either absent or holding the complete content of a write, and every
\* concurrent read of it fails as absent or returns a complete content.
CreateNeverPartial ==
    /\ pN \in DOMAIN fs =>
          fs[pN].content \in {Utf8Encode(c) : c \in ConcContents}
    /\ \A t \in Tasks :
          (/\ tasks[t].pc = "done"
           /\ tasks[t].op = "read_file"
           /\ tasks[t].validPath = pN
           /\ tasks[t].result.ok)
          => tasks[t].result.val \in {FullRead(c) : c \in ConcContents}

(***************************************************************************)
(* Directories: create_directory and move_file, one call at a time         *)
(***************************************************************************)
RECURSIVE FsMkdir(_, _)
\* fs.mkdir(p, {recursive: true}): every missing directory on the way to p is
\* created; an existing directory is left as it is, an existing file is EEXIST
FsMkdir(f, p) ==
    LET real == RealPath(f, p)
        above == FsMkdir(f, Dirname(p))
        place == CreatePlace(above.val, p)
    IN  IF real.ok
        THEN IF f[real.val].kind = "dir" THEN Ok(f) ELSE Err("EEXIST")
        ELSE IF real.err # "ENOENT" THEN real
        ELSE IF ~above.ok THEN above
        ELSE IF ~place.ok THEN place
        ELSE IF place.val \in DOMAIN above.val THEN Err("EEXIST")  \* a dangling link
        ELSE Ok(Put(above.val, place.val, DirNode))

\* part_001:1021-1031
CreateDirectoryCall(t, path) ==
    LET task == Validating(Received(t, "create_directory", [NoRequest EXCEPT !.path = path]))
        validPath == ValidatePath(fs, path)
        made == FsMkdir(fs, validPath.val)
        after == [task EXCEPT !.validPath = validPath.val,
                              !.touched = @ \cup {<<"mkdir", validPath.val>>}]
    IN  /\ Free(t)
        /\ IF ~validPath.ok
           THEN /\ tasks' = [tasks EXCEPT ![t] = Finish(task, validPath)]
                /\ fs' = fs
           ELSE IF ~made.ok
           THEN /\ tasks' = [tasks EXCEPT ![t] = Finish(after, made)]
                /\ fs' = fs
           ELSE /\ tasks' = [tasks EXCEPT ![t] = Finish(after, Ok(<<>>))]
                /\ fs' = made.val
        /\ calls' = calls + 1
        /\ UNCHANGED <<allowedDirectories, workspaceMode, lastWrite, pure, env, indexContent>>

\* part_001:1130-1141
MoveFileCall(t, source, destination) ==
    LET received == Received(t, "move_file",
                    [NoRequest EXCEPT !.source = source, !.destination = destination])
        first == [received EXCEPT
                    !.touched = {<<"realpath", PathResolve(ExpandHome(source))>>}]
        task == [first EXCEPT
                    !.touched = @ \cup {<<"realpath", PathResolve(ExpandHome(destination))>>}]
        validSourcePath == ValidatePath(fs, source)
        validDestPath == ValidatePath(fs, destination)
        renamed == FsRename(fs, validSourcePath.val, validDestPath.val)
        after == [task EXCEPT !.validPath = validSourcePath.val,
                              !.touched = @ \cup {<<"rename", validSourcePath.val>>,
                                                  <<"rename", validDestPath.val>>}]
    IN  /\ Free(t)
        /\ IF ~validSourcePath.ok
           THEN /\ tasks' = [tasks EXCEPT ![t] = Finish(first, validSourcePath)]
                /\ fs' = fs
           ELSE IF ~validDestPath.ok
           THEN /\ tasks' = [tasks EXCEPT ![t] = Finish(task, validDestPath)]
                /\ fs' = fs
           ELSE IF ~renamed.ok
           THEN /\ tasks' = [tasks EXCEPT ![t] = Finish(after, renamed)]
                /\ fs' = fs
           ELSE /\ tasks' = [tasks EXCEPT ![t] = Finish(after, Ok(<<>>))]
                /\ fs' = renamed.val
        /\ calls' = calls + 1
        /\ UNCHANGED <<allowedDirectories, workspaceMode, lastWrite, pure, env, indexContent>>

nX == <<"x">>
nY == <<"y">>
pX == <<nWs, nX>>
pXY == <<nWs, nX, nY>>
MkdirPaths == {pD, pN, pX, pXY, pXY \o << <<"z">> >>, pA}

MoveSources == {pA, pD, pL, pN, pXY}
MoveDestinations == {pA, pN, pX, pB, pL, pXY}

InitDirs ==
    /\ fs = InitFs
    /\ workspaceMode = TRUE
    /\ allowedDirectories = StartupDirectories(InitFs, <<pWs>>, TRUE)
    /\ tasks = [t \in Tasks |-> Idle]
    /\ calls = 0
    /\ lastWrite = NoWrite
    /\ pure = NoPure
    /\ env = StartupEnv
    /\ indexContent = BuiltIndex

NextDirs ==
    \E t \in Tasks :
        \/ \E path \in MkdirPaths : Alone(t) /\ CreateDirectoryCall(t, path)
        \/ \E source \in MoveSources, destination \in MoveDestinations :
              Alone(t) /\ MoveFileCall(t, source, destination)
        \/ Retire(t)

SpecDirs == InitDirs /\ [][NextDirs]_vars

\* the paths from the root down to p
UpTo(p) == {Take(p, k) : k \in 0..Len(p)}

\* C11: create_directory on a path inside a root, with no file on the way, succeeds
\* and leaves the directory and every ancestor of it existing, however many
\* trailing components were missing.
MkdirCreatesAncestors ==
    \A t \in Tasks :
        LET task == tasks[t]
            wanted == PathResolve(ExpandHome(task.args.path))
        IN  (/\ task.pc = "done"
             /\ task.op = "create_directory"
             /\ Inside(wanted, allowedDirectories)
             /\ \A q \in UpTo(wanted) : q \in DOMAIN fs => fs[q].kind = "dir")
            => /\ task.result.ok
               /\ \A q \in UpTo(wanted) : q \in DOMAIN fs /\ fs[q].kind = "dir"

(***************************************************************************)
(* Further properties of the tool calls, checked under Spec                *)
(***************************************************************************)
\* C12: a patch call whose edits all match returns the rendered diff of the edited
\* text against the text read, the same with and without the dry-run flag; with the
\* flag the file keeps its bytes, no temporary file is created and nothing is
\* renamed; without it the file holds the edited text.
DryRunOnlyRenders ==
    \A t \in Tasks :
        LET task == tasks[t]
            content == NormalizeLineEndings(Utf8Decode(task.original))
            applied == ApplyEdits(content, task.args.edits)
        IN  (/\ task.pc = "done"
             /\ task.op = "tiny_edit_file"
             /\ <<"read", task.validPath>> \in task.touched
             /\ UnmatchedEdits(content, task.args.edits) = {})
            => /\ task.result = Ok(FormatDiff(content, applied.content, task.validPath))
               /\ task.args.dryRun =>
                     /\ FsReadFile(fs, task.validPath) = Ok(task.original)
                     /\ TempPath(task.validPath, t) \notin DOMAIN fs
                     /\ \A access \in task.touched : access[1] \in {"realpath", "read"}
               /\ ~task.args.dryRun =>
                     /\ FsReadFile(fs, task.validPath) = Ok(Utf8Encode(applied.content))
                     /\ <<"rename", task.validPath>> \in task.touched

\* C12 witness: a dry run whose edit matched has returned a diff that shows a change
DryRunRendered ==
    \E t \in Tasks :
        /\ tasks[t].pc = "done"
        /\ tasks[t].op = "tiny_edit_file"
        /\ tasks[t].args.dryRun
        /\ tasks[t].result.ok
        /\ \E i \in 1..Len(tasks[t].result.val) : tasks[t].result.val[i] = "+"

\* the entries below root, at any depth
Descendants(f, root) == {q \in DOMAIN f : q # root /\ IsPrefixPath(root, q)}

\* the paths a search returned
Returned(task) == {task.result.val[i] : i \in 1..Len(task.result.val)}

ExcludedSubtreeRemoved ==
    \A t \in Tasks :
        LET task == tasks[t]
        IN  (/\ task.pc = "done"
             /\ task.op = "search_files"
             /\ task.result.ok)
            => \A k \in 1..Len(task.args.excludePatterns), q \in Returned(task) :
                  LET glob == task.args.excludePatterns[k]
                      relativePath == Drop(q, Len(task.validPath))
                  IN  \A j \in 1..Len(relativePath) :
                         IF \E i \in 1..Len(glob) : glob[i] = "*"
                         THEN ~Minimatch(Take(relativePath, j), glob)
                         ELSE relativePath[j] # glob

(***************************************************************************)
(* Batches: read_multiple_files and search_files on a directory tree that  *)
(* holds an entry validatePath fails on, the link /ws/k to itself          *)
(***************************************************************************)
pK == <<nWs, <<"k">> >>
InitFsBatch == Put(InitFs, pK, LinkNode(pK))

\* part_001:966  the message of one failed item; the error's code stands for its text
ErrorItem(filePath, err) ==
    PathText(filePath) \o <<":", SP, "E", "r", "r", "o", "r", SP, "-", SP>> \o <<err>>

\* part_001:959-967  one item of read_multiple_files
ReadOne(f, filePath) ==
    LET validPath == ValidatePath(f, filePath)
        bytes == FsReadFile(f, validPath.val)
    IN  IF ~validPath.ok THEN ErrorItem(filePath, validPath.err)
        ELSE IF ~bytes.ok THEN ErrorItem(filePath, bytes.err)
        ELSE PathText(filePath) \o <<":", NL>> \o Utf8Decode(bytes.val) \o <<NL>>

\* part_001:970
ItemSeparator == <<NL, "-", "-", "-", NL>>

\* a batch read that fails as a whole when one of its items fails
ReadAllOrFail(f, paths) ==
    LET failing == {i \in 1..Len(paths) : ~FsReadFile(f, ValidatePath(f, paths[i]).val).ok
                                           \/ ~ValidatePath(f, paths[i]).ok}
    IN  IF failing # {} THEN Err("ENOENT")
        ELSE Ok(Join([i \in 1..Len(paths) |-> ReadOne(f, paths[i])], ItemSeparator))

\* part_001:958-971  read_multiple_files: one item per path, in request order
ReadMultipleFiles(f, paths) ==
    Ok(Join([i \in 1..Len(paths) |-> ReadOne(f, paths[i])], ItemSeparator))

\* part_001:953-972
ReadMultipleFilesCall(t, paths) ==
    LET task == Received(t, "read_multiple_files", [NoRequest EXCEPT !.paths = paths])
        reads == {<<"realpath", PathResolve(ExpandHome(paths[i]))>> : i \in 1..Len(paths)}
                 \cup {<<"read", ValidatePath(fs, paths[i]).val>> :
                          i \in {j \in 1..Len(paths) : ValidatePath(fs, paths[j]).ok}}
    IN  /\ Free(t)
        /\ tasks' = [tasks EXCEPT ![t] =
                        Finish([task EXCEPT !.touched = reads], ReadMultipleFiles(fs, paths))]
        /\ calls' = calls + 1
        /\ UNCHANGED <<fs, allowedDirectories, workspaceMode, lastWrite, pure, env, indexContent>>

BatchFiles == {pA, pB, pN, pD, pK, pXY}
BatchPaths == {<<>>} \cup {<<p>> : p \in BatchFiles} \cup {<<p, q>> : p, q \in BatchFiles}

InitBatch ==
    /\ fs = InitFsBatch
    /\ workspaceMode = TRUE
    /\ allowedDirectories = StartupDirectories(InitFsBatch, <<pWs>>, TRUE)
    /\ tasks = [t \in Tasks |-> Idle]
    /\ calls = 0
    /\ lastWrite = NoWrite
    /\ pure = NoPure
    /\ env = StartupEnv
    /\ indexContent = BuiltIndex

NextBatch ==
    \E t \in Tasks :
        \/ \E paths \in BatchPaths : Alone(t) /\ ReadMultipleFilesCall(t, paths)
        \/ \E path \in SearchRoots, pattern \in SearchPatterns :
              Alone(t) /\ SearchFilesCall(t, path, pattern, <<>>)
        \/ Retire(t)

SpecBatch == InitBatch /\ [][NextBatch]_vars

ErrorCodes == {"ENOENT", "EISDIR", "ENOTDIR", "ELOOP", "ParentMissing"}

\* C15: read_multiple_files always answers, with one item per requested path in
\* request order: the path and the text of the file where the path can be resolved
\* and read, the path and an error where it cannot; and a search leaves out the
\* entries validatePath fails on and returns every match among the others.
BatchAbsorbsFailures ==
    \A t \in Tasks :
        LET task == tasks[t]
            paths == task.args.paths
            file(i) == FsReadFile(fs, PathResolve(paths[i]))
        IN  /\ (task.pc = "done" /\ task.op = "read_multiple_files") =>
                  /\ task.result.ok
                  /\ \E errs \in [1..Len(paths) -> ErrorCodes] :
                        task.result.val =
                            Join([i \in 1..Len(paths) |->
                                    IF file(i).ok
                                    THEN PathText(paths[i]) \o <<":", NL>>
                                         \o FullRead(Utf8Decode(file(i).val)) \o <<NL>>
                                    ELSE ErrorItem(paths[i], errs[i])],
                                 ItemSeparator)
            /\ (/\ task.pc = "done"
                /\ task.op = "search_files"
                /\ task.args.excludePatterns = <<>>
                /\ RealPath(fs, task.validPath).ok
                /\ fs[RealPath(fs, task.validPath).val].kind = "dir") =>
                  /\ task.result.ok
                  /\ Returned(task) =
                        {q \in Descendants(fs, task.validPath) :
                            /\ RealPath(fs, q).err \in {"none", "ENOENT"}
                            /\ Includes(ToLowerCase(Basename(q)),
                                        ToLowerCase(task.args.pattern))}

\* C15 witness: a batch read of the link /ws/k, which cannot be resolved, and of the
\* file /ws/a has answered
BatchWithFailedItem ==
    \E t \in Tasks :
        /\ tasks[t].pc = "done"
        /\ tasks[t].op = "read_multiple_files"
        /\ tasks[t].args.paths = <<pK, pA>>
        /\ tasks[t].result.ok


\* a move_file call is received and answered in this step
MoveAnswered(t) ==
    tasks[t].pc = "idle" /\ tasks'[t].pc = "done" /\ tasks'[t].op = "move_file"

\* what a step that answers a move_file call does to the filesystem, whether or not
\* the resolved source and the resolved destination are one path
MoveEffect(t, alsoOntoItself) ==
    LET args == tasks'[t].args
        validSourcePath == ValidatePath(fs, args.source)
        validDestPath == ValidatePath(fs, args.destination)
        moved == Subtree(fs, validSourcePath.val)
        Moved(q) == validDestPath.val \o Drop(q, Len(validSourcePath.val))
    IN  /\ (~validSourcePath.ok \/ ~validDestPath.ok) =>
              ~tasks'[t].result.ok /\ fs' = fs
        /\ ~tasks'[t].result.ok => fs' = fs
        /\ (tasks'[t].result.ok
            /\ (alsoOntoItself \/ validSourcePath.val # validDestPath.val)) =>
              /\ validSourcePath.val \in DOMAIN fs
              /\ validSourcePath.val \notin DOMAIN fs'
              /\ ~RealPath(fs', PathResolve(ExpandHome(args.source))).ok
              /\ \A q \in moved : Moved(q) \in DOMAIN fs' /\ fs'[Moved(q)] = fs[q]
              /\ \A q \in DOMAIN fs' : q \in {Moved(m) : m \in moved} \/ q \in DOMAIN fs
              /\ \A q \in DOMAIN fs \ moved :
                    IsPrefixPath(validDestPath.val, q)
                    \/ (q \in DOMAIN fs' /\ fs'[q] = fs[q])
        /\ (tasks'[t].result.ok /\ validSourcePath.val = validDestPath.val) => fs' = fs

\* C16 (as stated): move_file resolves the source and the destination before any
\* rename; if either fails, or the rename fails, the filesystem is unchanged; when
\* the call succeeds the entry at the resolved source, with everything below it, is
\* at the resolved destination, the source path no longer exists and nothing else
\* has changed.
MoveIsOneRename == [][\A t \in Tasks : MoveAnswered(t) => MoveEffect(t, TRUE)]_vars

\* C16 (amended): the same, the source path being gone only when the resolved
\* source and the resolved destination are different paths; a move of an entry onto
\* itself succeeds and changes nothing.
MoveIsOneRenameUnlessOntoItself ==
    [][\A t \in Tasks : MoveAnswered(t) => MoveEffect(t, FALSE)]_vars

\* C16 witness: the file /ws/a has been moved to /ws/n
MovedAToN ==
    \E t \in Tasks :
        /\ tasks[t].pc = "done"
        /\ tasks[t].op = "move_file"
        /\ tasks[t].result.ok
        /\ tasks[t].args.source = pA
        /\ tasks[t].args.destination = pN
        /\ pA \notin DOMAIN fs
        /\ pN \in DOMAIN fs
        /\ fs[pN].content = Utf8Encode(ContentA)


(***************************************************************************)
(* Tools: the listing, the dispatcher and the verification of the build    *)
(***************************************************************************)
Range(s) == {s[i] : i \in 1..Len(s)}

\* part_001:549-567  the ListTools handler: the names of the tools it returns
ListTools(enabled, apiKey) ==
    LET Available(tool) ==
            /\ tool.name \in Range(enabled)
            /\ ~(tool.requiresApiKey /\ ~apiKey)
        availableTools == SelectSeq(allTools, Available)
    IN  [i \in 1..Len(availableTools) |-> availableTools[i].name]

\* part_001:494-568
ListToolsCall(t) ==
    LET task == Received(t, "list_tools", NoRequest)
    IN  /\ Free(t)
        /\ tasks' = [tasks EXCEPT ![t] = Finish(task, Ok(ListTools(ENABLED_TOOLS, MORPH_API_KEY)))]
        /\ calls' = calls + 1
        /\ UNCHANGED <<fs, allowedDirectories, workspaceMode, lastWrite, pure, env, indexContent>>

AllowedHeader ==
    <<"A", "l", "l", "o", "w", "e", "d", SP, "d", "i", "r", "e", "c", "t", "o", "r",
      "i", "e", "s", ":", NL>>

\* part_001:1166-1173
ListAllowedDirectories(dirs) ==
    Ok(AllowedHeader \o Join([i \in 1..Len(dirs) |-> PathText(dirs[i])], <<NL>>))

\* a switch that serves only the tools of the enabled set
DispatchEnabled(cases, name, dirs) ==
    IF name \notin cases \cap Range(ENABLED_TOOLS) THEN Err("Unknown tool")
    ELSE IF name = "list_allowed_directories" THEN ListAllowedDirectories(dirs)
    ELSE Err("Invalid arguments")

\* part_001:569-1177  the switch of the CallTool handler for a call that carries no
\* arguments: every case but list_allowed_directories parses the arguments first
\* and fails on them; a name with no case falls to the default
Dispatch(cases, name, dirs) ==
    IF name \notin cases THEN Err("Unknown tool")
    ELSE IF name = "list_allowed_directories" THEN ListAllowedDirectories(dirs)
    ELSE Err("Invalid arguments")

CallToolCall(t, name) ==
    LET task == Received(t, "call_tool", [NoRequest EXCEPT !.name = name])
    IN  /\ Free(t)
        /\ tasks' = [tasks EXCEPT ![t] =
                        Finish(task, Dispatch(HandlerCases, name, allowedDirectories))]
        /\ calls' = calls + 1
        /\ UNCHANGED <<fs, allowedDirectories, workspaceMode, lastWrite, pure, env, indexContent>>

\* verify-tools.js:14-32
REQUIRED_TOOLS ==
    <<"read_file", "read_multiple_files", "write_file", "tiny_edit_file",
      "create_directory", "list_directory", "list_directory_with_sizes",
      "directory_tree", "move_file", "search_files", "get_file_info",
      "list_allowed_directories", "edit_file", "warpgrep_codebase_search",
      "codebase_search">>

\* verify-tools.js:39-120  the names read from the ALL_TOOLS array of the index
\* and the cases found in it; exitCode 0 is VERIFICATION PASSED
VerifyTools(index) ==
    LET foundTools == index.ALL_TOOLS
        Missing(tool) == tool \notin Range(foundTools)
        Extra(tool) == tool \notin Range(REQUIRED_TOOLS)
        NoHandler(tool) == tool \notin index.cases
        missingTools == SelectSeq(REQUIRED_TOOLS, Missing)
        extraTools == SelectSeq(foundTools, Extra)
        handlersMissing == SelectSeq(REQUIRED_TOOLS, NoHandler)
        allPresent == Len(missingTools) = 0 /\ Len(handlersMissing) = 0
    IN  [exitCode |-> IF allPresent /\ Len(missingTools) = 0 /\ Len(handlersMissing) = 0
                      THEN 0 ELSE 1,
         missingTools |-> missingTools,
         handlersMissing |-> handlersMissing,
         extraTools |-> extraTools]

\* one run of the verification script on the built index
VerifyApply ==
    /\ pure.fn = "none"
    /\ pure' = [pure EXCEPT !.fn = "verify",
                            !.n = VerifyTools(indexContent).exitCode,
                            !.out = VerifyTools(indexContent).missingTools
                                    \o VerifyTools(indexContent).handlersMissing]
    /\ UNCHANGED <<fs, allowedDirectories, workspaceMode, tasks, calls, lastWrite, env, indexContent>>

MorphTools == <<"edit_file", "warpgrep_codebase_search", "codebase_search">>

EnabledToolsValues ==
    {<<>>, <<"all">>, <<"read_file">>, <<"edit_file", "read_file">>, <<"codebase_search">>}

\* builds of the index: this one, the one before the filesystem tools were added,
\* the two halves of that addition, and one with a further tool
IndexContents ==
    {BuiltIndex,
     [ALL_TOOLS |-> MorphTools, cases |-> MorphCases],
     [ALL_TOOLS |-> ALL_TOOLS, cases |-> MorphCases],
     [ALL_TOOLS |-> MorphTools, cases |-> HandlerCases],
     [ALL_TOOLS |-> ALL_TOOLS \o <<"delete_file">>, cases |-> HandlerCases \cup {"delete_file"}]}

ToolNames == Range(ALL_TOOLS) \cup {"delete_file"}

InitTools ==
    /\ fs = InitFs
    /\ workspaceMode = TRUE
    /\ allowedDirectories = StartupDirectories(InitFs, <<pWs>>, TRUE)
    /\ tasks = [t \in Tasks |-> Idle]
    /\ calls = 0
    /\ lastWrite = NoWrite
    /\ pure = NoPure
    /\ env \in [ENABLED_TOOLS : EnabledToolsValues, MORPH_API_KEY : BOOLEAN]
    /\ indexContent \in IndexContents

NextTools ==
    \/ \E t \in Tasks :
          \/ Alone(t) /\ ListToolsCall(t)
          \/ \E name \in ToolNames : Alone(t) /\ CallToolCall(t, name)
          \/ Retire(t)
    \/ VerifyApply

SpecTools == InitTools /\ [][NextTools]_vars

\* C17: with an API key configured, every tool of the enabled set that the server
\* knows is returned by the listing; with ENABLED_TOOLS=all these are the 15 tools.
EveryEnabledToolListed ==
    \A t \in Tasks :
        (/\ tasks[t].pc = "done"
         /\ tasks[t].op = "list_tools"
         /\ MORPH_API_KEY)
        => \A name \in Range(ENABLED_TOOLS) \cap Range(ALL_TOOLS) :
              name \in Range(tasks[t].result.val)


\* C18: each of the 15 required tool names is in ALL_TOOLS and has a case in the
\* switch, so a call naming a required tool never ends in the default case
\* (Unknown tool); and the verification exits with 0 only for an index whose
\* ALL_TOOLS holds every required name and which has a case for every required name.
RequiredToolsDispatched ==
    /\ Cardinality(Range(REQUIRED_TOOLS)) = 15
    /\ Range(REQUIRED_TOOLS) \subseteq Range(ALL_TOOLS)
    /\ \A t \in Tasks :
          (/\ tasks[t].pc = "done"
           /\ tasks[t].op = "call_tool"
           /\ tasks[t].args.name \in Range(REQUIRED_TOOLS))
          => tasks[t].result.err # "Unknown tool"
    /\ (pure.fn = "verify" /\ pure.n = 0) =>
          /\ Range(REQUIRED_TOOLS) \subseteq Range(indexContent.ALL_TOOLS)
          /\ Range(REQUIRED_TOOLS) \subseteq indexContent.cases

\* C18 witness: the verification has passed on the index built from this source and
\* a call of move_file has gone through its case
VerifiedAndDispatched ==
    /\ pure.fn = "verify"
    /\ pure.n = 0
    /\ indexContent = BuiltIndex
    /\ \E t \in Tasks :
          /\ tasks[t].pc = "done"
          /\ tasks[t].op = "call_tool"
          /\ tasks[t].args.name = "move_file"
          /\ tasks[t].result.err = "Invalid arguments"


(***************************************************************************)
(* Root updates in steps: overlapping roots/list_changed notifications,    *)
(* interleaved with tool calls                                             *)
(***************************************************************************)
\* an assignment that adds the validated candidates to the roots already held
AppendRoots(current, validatedRootDirs) == current \o validatedRootDirs

\* part_001:1203  allowedDirectories = [...validatedRootDirs]
AssignRoots(current, validatedRootDirs) == validatedRootDirs

\* part_001:1224-1229  the notification has arrived and the client has listed its roots
RootsNotified(t, requestedRoots) ==
    /\ Free(t)
    /\ tasks' = [tasks EXCEPT ![t] =
                    [Received(t, "roots_list_changed",
                              [NoRequest EXCEPT !.roots = requestedRoots])
                        EXCEPT !.pc = "listed"]]
    /\ calls' = calls + 1
    /\ UNCHANGED <<fs, allowedDirectories, workspaceMode, lastWrite, pure, env, indexContent>>

\* part_001:1201  await getValidRootDirectories(requestedRoots)
RootsValidated(t) ==
    /\ tasks[t].pc = "listed"
    /\ tasks' = [tasks EXCEPT ![t] =
                    [@ EXCEPT !.pc = "validated",
                              !.payload = GetValidRootDirectories(fs, tasks[t].args.roots)]]
    /\ UNCHANGED <<fs, allowedDirectories, workspaceMode, calls, lastWrite, pure, env, indexContent>>

\* a continuation that assigns the validated candidates even when there are none
RootsAssignedAlways(t) ==
    /\ tasks[t].pc = "validated"
    /\ allowedDirectories' = AssignRoots(allowedDirectories, tasks[t].payload)
    /\ tasks' = [tasks EXCEPT ![t] = Finish(@, Ok(<<>>))]
    /\ UNCHANGED <<fs, workspaceMode, calls, lastWrite, pure, env, indexContent>>

\* part_001:1202-1211  the continuation after the await
RootsAssigned(t) ==
    /\ tasks[t].pc = "validated"
    /\ IF Len(tasks[t].payload) > 0
       THEN /\ allowedDirectories' = AssignRoots(allowedDirectories, tasks[t].payload)
            /\ tasks' = [tasks EXCEPT ![t] = Finish(@, Ok(<<>>))]
       ELSE IF workspaceMode
       THEN /\ allowedDirectories' = allowedDirectories
            /\ tasks' = [tasks EXCEPT ![t] = [@ EXCEPT !.pc = "detecting"]]
       ELSE /\ allowedDirectories' = allowedDirectories
            /\ tasks' = [tasks EXCEPT ![t] = Finish(@, Ok(<<>>))]
    /\ UNCHANGED <<fs, workspaceMode, calls, lastWrite, pure, env, indexContent>>

\* part_001:1211-1215  await detectWorkspaceRoot(WORKSPACE_ROOT) and the assignment
RootsFallback(t) ==
    /\ tasks[t].pc = "detecting"
    /\ allowedDirectories' = <<DetectWorkspaceRoot(fs, WORKSPACE_ROOT)>>
    /\ tasks' = [tasks EXCEPT ![t] = Finish(@, Ok(<<>>))]
    /\ UNCHANGED <<fs, workspaceMode, calls, lastWrite, pure, env, indexContent>>

RootUpdates == { <<pD>>, <<pWs, pH>>, <<pX, pD>>, <<pA>> }

InitRoots ==
    /\ fs = InitFs
    /\ workspaceMode \in BOOLEAN
    /\ allowedDirectories = StartupDirectories(InitFs, <<pWs>>, workspaceMode)
    /\ tasks = [t \in Tasks |-> Idle]
    /\ calls = 0
    /\ lastWrite = NoWrite
    /\ pure = NoPure
    /\ env = StartupEnv
    /\ indexContent = BuiltIndex

NextRoots ==
    \E t \in Tasks :
        \/ \E requestedRoots \in RootUpdates : RootsNotified(t, requestedRoots)
        \/ RootsValidated(t)
        \/ RootsAssigned(t)
        \/ RootsFallback(t)
        \/ CallToolCall(t, "list_allowed_directories")
        \/ CreateDirectoryCall(t, pX)
        \/ Retire(t)

SpecRoots == InitRoots /\ [][NextRoots]_vars

\* the filesystems SpecRoots can be in: /ws/x created or not
RootsFilesystems == {InitFs, FsMkdir(InitFs, pX).val}

\* the RootSets that are whole: the one of startup, the validated candidates of one
\* update, the fallback workspace root alone
WholeRootSets ==
    {StartupDirectories(InitFs, <<pWs>>, workspaceMode)}
    \cup ({GetValidRootDirectories(f, r) : f \in RootsFilesystems, r \in RootUpdates}
          \ {<<>>})
    \cup {<<DetectWorkspaceRoot(f, WORKSPACE_ROOT)>> : f \in RootsFilesystems}

\* C19: whatever the interleaving of tool calls and of the steps of overlapping root
\* updates, the RootSet, and so every answer of list_allowed_directories, is the
\* startup set, the complete validated candidates of one update, or the fallback
\* workspace root alone.
RootSetAlwaysWhole ==
    /\ allowedDirectories \in WholeRootSets
    /\ \A t \in Tasks :
          (/\ tasks[t].pc = "done"
           /\ tasks[t].op = "call_tool"
           /\ tasks[t].args.name = "list_allowed_directories")
          => \E dirs \in WholeRootSets : tasks[t].result = ListAllowedDirectories(dirs)

\* C19 witness: list_allowed_directories has answered with the roots of one update,
\* /ws/d, while another update has validated /ws and /h and not yet assigned them
ReadBetweenTwoUpdates ==
    \E t, u \in Tasks :
        /\ tasks[t].pc = "done"
        /\ tasks[t].op = "call_tool"
        /\ tasks[t].result = ListAllowedDirectories(<<pD>>)
        /\ tasks[u].op = "roots_list_changed"
        /\ tasks[u].pc = "validated"
        /\ tasks[u].payload = <<pWs, pH>>


(***************************************************************************)
(* Patches of /ws/a whose search text occurs verbatim, one call at a time  *)
(***************************************************************************)
ExactEdits ==
    { << Edit(<<"f", "o", "o">>, <<"b", "a", "z">>) >>,
      << Edit(<<"o">>, <<"$", "&", "$", "&">>) >>,
      << Edit(<<"b", "a", "r">>, <<SP, "b", "$", "$">>) >>,
      << Edit(<<"f", "o", "o">>, <<"b", "a", "z">>),
         Edit(<<"b", "a", "z", NL, "b">>, <<"q">>) >>,
      << Edit(<<"o", CR, NL, "b">>, <<"x">>) >>,
      << Edit(<<SP, "b", "a", "r">>, <<"q", "u", "x">>) >> }

InitEdit ==
    /\ fs = InitFs
    /\ workspaceMode = TRUE
    /\ allowedDirectories = StartupDirectories(InitFs, <<pWs>>, TRUE)
    /\ tasks = [t \in Tasks |-> Idle]
    /\ calls = 0
    /\ lastWrite = NoWrite
    /\ pure = NoPure
    /\ env = StartupEnv
    /\ indexContent = BuiltIndex

NextEdit ==
    \E t \in Tasks :
        \/ \E edits \in ExactEdits, dryRun \in BOOLEAN :
              Alone(t) /\ EditFileCall(t, pA, edits, dryRun)
        \/ EditFileStep(t)
        \/ TempOpen(t)
        \/ WriteFill(t)
        \/ TempRename(t)
        \/ Retire(t)

SpecEdit == InitEdit /\ [][NextEdit]_vars

RECURSIVE AllVerbatim(_, _)
\* every edit of the list occurs verbatim in the buffer the edits before it leave,
\* each replacement being the new text as it is written
AllVerbatim(buffer, edits) ==
    IF Len(edits) = 0 THEN TRUE
    ELSE LET old == NormalizeLineEndings(edits[1].oldText)
             new == NormalizeLineEndings(edits[1].newText)
             i == IndexOf(buffer, old)
         IN  /\ i > 0
             /\ AllVerbatim(SubSeq(buffer, 1, i - 1) \o new \o Drop(buffer, i + Len(old) - 1),
                            Tail(edits))

RECURSIVE LiteralEdits(_, _)
\* the buffer after the edits, each replacing the first occurrence of its search
\* text by its replacement text as it is written
LiteralEdits(buffer, edits) ==
    IF Len(edits) = 0 THEN buffer
    ELSE LET old == NormalizeLineEndings(edits[1].oldText)
             new == NormalizeLineEndings(edits[1].newText)
             i == IndexOf(buffer, old)
         IN  LiteralEdits(SubSeq(buffer, 1, i - 1) \o new \o Drop(buffer, i + Len(old) - 1),
                          Tail(edits))

\* C20: a patch whose edits each occur verbatim in the buffer left by the edits
\* before them persists the content in which, in list order, the first occurrence of
\* each search text is replaced by the replacement text taken literally and
\* everything else is unchanged; "foo\nbar\n" with (foo -> baz) gives "baz\nbar\n".
ExactEditReplacesLiterally ==
    \A t \in Tasks :
        LET task == tasks[t]
            content == NormalizeLineEndings(Utf8Decode(task.original))
        IN  (/\ task.pc = "done"
             /\ task.op = "tiny_edit_file"
             /\ task.result.ok
             /\ ~task.args.dryRun
             /\ AllVerbatim(content, task.args.edits))
            => Utf8Decode(fs[task.validPath].content) = LiteralEdits(content, task.args.edits)


(***************************************************************************)
(* The patch engine on its own: a buffer is drawn, one edit is drawn, and   *)
(* the edit is applied to the buffer.                                      *)
(***************************************************************************)
MaxContentLen == 4
FuzzyAlphabet == {SP, "x", NL}
FuzzyContents == UNION { [1..k -> FuzzyAlphabet] : k \in 0..MaxContentLen }
FuzzyOlds ==
    { <<"x", SP>>, <<SP, "x", SP>>, <<"x", NL, SP, "x">>, <<SP, "x", NL, "x">>,
      <<"x", NL, "x", NL, "x">>, <<"x", NL>>, <<SP, SP, "x", NL, SP, SP, "x">> }
FuzzyNews ==
    { <<"y">>, <<SP, "y">>, <<"y", NL, SP, SP, "y">>, <<SP, "y", NL, SP, "y">>,
      <<"y", NL, "y">>, <<"y", NL, SP, "y", NL, SP, "y">> }

InitFuzzy ==
    /\ fs = InitFs
    /\ workspaceMode = TRUE
    /\ allowedDirectories = StartupDirectories(InitFs, <<pWs>>, TRUE)
    /\ tasks = [t \in Tasks |-> Idle]
    /\ calls = 0
    /\ lastWrite = NoWrite
    /\ \E content \in FuzzyContents, old \in FuzzyOlds, new \in FuzzyNews :
          pure = [fn |-> "none", text |-> content, n |-> 0, out |-> <<>>,
                  edit |-> Edit(old, new), ok |-> FALSE]
    /\ env = StartupEnv
    /\ indexContent = BuiltIndex

\* part_001:331-373  one turn of the loop over the edits
EditApply ==
    /\ pure.fn = "none"
    /\ pure' = [pure EXCEPT !.fn = "edit",
                            !.ok = ApplyEdit(pure.text, pure.edit).ok,
                            !.out = ApplyEdit(pure.text, pure.edit).val]
    /\ UNCHANGED <<fs, allowedDirectories, workspaceMode, tasks, calls, lastWrite, env, indexContent>>

NextFuzzy == EditApply

SpecFuzzy == InitFuzzy /\ [][NextFuzzy]_vars

\* the starts (1-based) of the windows of the buffer's lines that equal the search
\* lines, every line stripped of leading and trailing whitespace
MatchingStarts(content, old) ==
    LET lines == Split(content, NL)
        oldLines == Split(old, NL)
    IN  {i \in 1..(Len(lines) - Len(oldLines) + 1) :
            \A j \in 1..Len(oldLines) : Trim(lines[i + j - 1]) = Trim(oldLines[j])}

\* the edit applied was left to the line-window matcher
FuzzyTried == pure.fn = "edit" /\ ~Includes(pure.text, pure.edit.oldText)

\* C21: an edit whose search text does not occur verbatim fails when no window of
\* the buffer's lines matches the search lines (as when the search text has more
\* lines than the buffer); otherwise the window at the smallest matching start, and
\* no other line, is replaced by as many lines as the replacement text has, each
\* the replacement line up to its leading whitespace.
FirstMatchingWindowReplaced ==
    FuzzyTried =>
        LET lines == Split(pure.text, NL)
            oldLines == Split(pure.edit.oldText, NL)
            newLines == Split(pure.edit.newText, NL)
            starts == MatchingStarts(pure.text, pure.edit.oldText)
            i == CHOOSE k \in starts : \A m \in starts : k <= m
            outLines == Split(pure.out, NL)
        IN  IF starts = {} THEN ~pure.ok
            ELSE /\ pure.ok
                 /\ Len(outLines) = Len(lines) - Len(oldLines) + Len(newLines)
                 /\ SubSeq(outLines, 1, i - 1) = SubSeq(lines, 1, i - 1)
                 /\ \A j \in 1..Len(newLines) :
                       TrimStart(outLines[i + j - 1]) = TrimStart(newLines[j])
                 /\ Drop(outLines, i + Len(newLines) - 1) = Drop(lines, i + Len(oldLines) - 1)

\* C21 witness: two windows match and the edit has been applied
TwoWindowsMatched ==
    /\ FuzzyTried
    /\ pure.ok
    /\ Cardinality(MatchingStarts(pure.text, pure.edit.oldText)) >= 2


\* C22: when the line-window matcher succeeds at content line i, the first
\* replacement line is emitted with the leading whitespace of content line i, and
\* each later replacement line j that has a search line j with that whitespace,
\* then as many spaces as replacement line j is indented more than search line j
\* (none when it is indented less), then the line without its leading whitespace.
ReplacementReindented ==
    (FuzzyTried /\ pure.ok) =>
        LET lines == Split(pure.text, NL)
            oldLines == Split(pure.edit.oldText, NL)
            newLines == Split(pure.edit.newText, NL)
            starts == MatchingStarts(pure.text, pure.edit.oldText)
            i == CHOOSE k \in starts : \A m \in starts : k <= m
            originalIndent == LeadingWs(lines[i])
            outLines == Split(pure.out, NL)
            Delta(j) == Len(LeadingWs(newLines[j])) - Len(LeadingWs(oldLines[j]))
        IN  /\ outLines[i] = originalIndent \o TrimStart(newLines[1])
            /\ \A j \in 2..Min(Len(newLines), Len(oldLines)) :
                  outLines[i + j - 1] =
                      originalIndent \o Repeat(SP, Max(0, Delta(j))) \o TrimStart(newLines[j])


(***************************************************************************)
(* Failures while a target is replaced: a write or a patch in the first    *)
(* slot, a move of the directory /ws/d in the second, and writes that the  *)
(* filesystem cuts short                                                   *)
(***************************************************************************)
\* part_001:990, part_001:388  fs.writeFile(tempPath, ...) fails after the open, the
\* device being full: the file is closed with the bytes written so far, and the
\* catch branch (part_001:994-1000, 391-397) removes it and rethrows
TempWriteFails(t) ==
    LET task == tasks[t]
        tempPath == TempPath(task.validPath, t)
    IN  /\ task.pc = "tempfill"
        /\ fs' = UnlinkQuietly(FsClose(fs, t), tempPath)
        /\ tasks' = [tasks EXCEPT ![t] = Finish(task, Err("ENOSPC"))]
        /\ UNCHANGED <<allowedDirectories, workspaceMode, calls, lastWrite, pure, env, indexContent>>

FailPaths == {pB, pD}
FailContents == { <<"x">>, <<"x", "y">> }
FailEdits == { << Edit(<<"b">>, <<"c">>) >>, << Edit(<<"c">>, <<"b", "b">>) >> }

InitFail ==
    /\ fs = InitFs
    /\ workspaceMode = TRUE
    /\ allowedDirectories = StartupDirectories(InitFs, <<pWs>>, TRUE)
    /\ tasks = [t \in Tasks |-> Idle]
    /\ calls = 0
    /\ lastWrite = NoWrite
    /\ pure = NoPure
    /\ env = StartupEnv
    /\ indexContent = BuiltIndex

NextFail ==
    \/ \E path \in FailPaths, content \in FailContents : WriteFileCall(1, path, content)
    \/ \E edits \in FailEdits : EditFileCall(1, pB, edits, FALSE)
    \/ EditFileStep(1)
    \/ WriteCreate(1)
    \/ WriteFill(1)
    \/ TempOpen(1)
    \/ TempWriteFails(1)
    \/ TempRename(1)
    \/ \E move \in {<<pD, pX>>, <<pX, pD>>} : MoveFileCall(2, move[1], move[2])
    \/ \E t \in Tasks : Retire(t)

SpecFail == InitFail /\ [][NextFail]_vars

\* the call in slot t ends in this step on a failure of the write of its temporary
\* file or of the rename of it
ReplaceFails(t) ==
    /\ tasks[t].pc \in {"temp", "tempfill", "rename"}
    /\ tasks'[t].pc = "done"
    /\ ~tasks'[t].result.ok

\* C23: a write_file or patch call that fails while writing its temporary file or
\* renaming it ends with the error of that write or rename, whether or not the
\* temporary file could be deleted; every entry but the temporary file, the target
\* among them, is as it was; and the temporary file is gone whenever it could be
\* deleted.
FailedReplaceCleansUp ==
    [][\A t \in Tasks :
          ReplaceFails(t) =>
              LET task == tasks[t]
                  tempPath == TempPath(task.validPath, t)
                  original ==
                      CASE task.pc = "temp" -> FsOpenTruncate(fs, tempPath, t).err
                        [] task.pc = "tempfill" -> "ENOSPC"
                        [] OTHER -> FsRename(fs, tempPath, task.validPath).err
                  closed == FsClose(fs, t)
              IN  /\ tasks'[t].result.err = original
                  /\ original # "none"
                  /\ \A q \in (DOMAIN fs \cup DOMAIN fs') \ {tempPath} :
                        q \in DOMAIN fs /\ q \in DOMAIN fs' /\ fs'[q] = closed[q]
                  /\ FsUnlink(closed, tempPath).ok => tempPath \notin DOMAIN fs'
                  /\ ~FsUnlink(closed, tempPath).ok =>
                        (tempPath \in DOMAIN fs' <=> tempPath \in DOMAIN fs)]_vars

\* C23 witnesses: a write of the directory /ws/d has failed at the rename and left no
\* temporary file
RenameOntoDirectoryFailed ==
    /\ tasks[1].pc = "done"
    /\ tasks[1].op = "write_file"
    /\ tasks[1].validPath = pD
    /\ tasks[1].result.err = "EISDIR"
    /\ TempPath(pD, 1) \notin DOMAIN fs
    /\ pD \in DOMAIN fs


\* the call in slot t is a write_file of the existing file /ws/a
WritesA(t) == tasks[t].op = "write_file" /\ tasks[t].validPath = pA

\* C24: of two write_file calls on the existing file /ws/a running at once, each
\* writes a temporary file of its own; each rename puts the complete content of its
\* writer on /ws/a, and /ws/a changes in no other step, so that after both it holds
\* the content of the writer that renamed last; and once both have ended no
\* temporary file is left.
LastRenameWins ==
    /\ [](\A t, u \in Tasks :
            /\ (t # u /\ WritesA(t) /\ WritesA(u)) =>
                  TempPath(tasks[t].validPath, t) # TempPath(tasks[u].validPath, u)
            /\ (/\ t # u /\ WritesA(t) /\ WritesA(u)
                /\ tasks[t].pc = "done" /\ tasks[u].pc = "done") =>
                  /\ tasks[t].result.ok
                  /\ fs[pA].content \in {tasks[t].payload, tasks[u].payload}
                  /\ DOMAIN fs \subseteq DOMAIN InitFs \cup {pN})
    /\ [][/\ \A t \in Tasks :
               (WritesA(t) /\ tasks[t].pc = "rename" /\ tasks'[t].pc = "done") =>
                   /\ tasks'[t].result.ok
                   /\ fs'[pA].kind = "file"
                   /\ fs'[pA].content = tasks[t].payload
                   /\ tasks[t].payload = Utf8Encode(tasks[t].args.content)
                   /\ TempPath(pA, t) \notin DOMAIN fs'
          /\ fs'[pA] # fs[pA] =>
               \E t \in Tasks : tasks[t].pc = "rename" /\ tasks'[t].pc = "done"]_vars

\* C24 witness: two writes of /ws/a with different contents have both ended, and
\* /ws/a holds the content of the one in the first slot
BothWritersDone ==
    /\ WritesA(1) /\ WritesA(2)
    /\ tasks[1].pc = "done" /\ tasks[2].pc = "done"
    /\ tasks[1].seq < tasks[2].seq
    /\ tasks[1].payload # tasks[2].payload
    /\ fs[pA].content = tasks[1].payload


(***************************************************************************)
(* The filesystem-tools patch, applied to an index file over and over.  An *)
(* index is the names in its ALL_TOOLS array, the cases of its switch in   *)
(* order, and whether the switch has a default case at the indentation the *)
(* patch looks for.                                                        *)
(***************************************************************************)
\* the handlers between FILESYSTEM_TOOLS_START and FILESYSTEM_TOOLS_END, as the
\* patch has left them in the built index (part_001:925-1173)
FilesystemHandlers ==
    <<"read_file", "read_multiple_files", "write_file", "tiny_edit_file",
      "create_directory", "list_directory", "list_directory_with_sizes",
      "directory_tree", "move_file", "search_files", "get_file_info",
      "list_allowed_directories">>

\* a patch that inserts the handlers whatever the source holds
ApplyPatchAlways(sourceContent) ==
    [sourceContent EXCEPT
        !.ALL_TOOLS = IF sourceContent.hasAllTools THEN ALL_TOOLS ELSE @,
        !.cases = IF sourceContent.hasDefault THEN @ \o FilesystemHandlers ELSE @]

\* patch-logic.mjs:13-65  applyPatch: the content written to outputPath
ApplyPatch(sourceContent) ==
    LET hasReadFile == "read_file" \in Range(sourceContent.cases)
    IN  [sourceContent EXCEPT
            !.ALL_TOOLS = IF sourceContent.hasAllTools THEN ALL_TOOLS ELSE @,
            !.cases = IF ~hasReadFile /\ sourceContent.hasDefault
                      THEN @ \o FilesystemHandlers ELSE @]

MaxPatches == 3

PatchSources ==
    [ALL_TOOLS : {MorphTools, ALL_TOOLS, ALL_TOOLS \o <<"delete_file">>, <<>>},
     hasAllTools : {TRUE},
     cases : {MorphTools, MorphTools \o FilesystemHandlers, <<>>, FilesystemHandlers,
              MorphTools \o <<"read_file">>, <<"write_file">> \o MorphTools,
              <<"read_file">>, <<"edit_file">>, <<"edit_file", "move_file">>},
     hasDefault : BOOLEAN]
    \cup [ALL_TOOLS : {<<>>}, hasAllTools : {FALSE},
          cases : {MorphTools, MorphTools \o FilesystemHandlers}, hasDefault : BOOLEAN]

InitPatch ==
    /\ fs = InitFs
    /\ workspaceMode = TRUE
    /\ allowedDirectories = StartupDirectories(InitFs, <<pWs>>, TRUE)
    /\ tasks = [t \in Tasks |-> Idle]
    /\ calls = 0
    /\ lastWrite = NoWrite
    /\ pure = NoPure
    /\ env = StartupEnv
    /\ indexContent \in PatchSources

\* one run of applyPatch with the index as source and as output
PatchApply ==
    /\ pure.n < MaxPatches
    /\ indexContent' = ApplyPatch(indexContent)
    /\ pure' = [pure EXCEPT !.fn = "patch", !.n = @ + 1]
    /\ UNCHANGED <<fs, allowedDirectories, workspaceMode, tasks, calls, lastWrite, env>>

NextPatch == PatchApply

SpecPatch == InitPatch /\ [][NextPatch]_vars

\* how many cases of the switch name the tool
CasesOf(index, tool) == Cardinality({i \in 1..Len(index.cases) : index.cases[i] = tool})

\* C25: a run of the patch on an index that has a read_file case leaves the cases
\* of the switch as they are and the ALL_TOOLS array holding the 15 names; a run
\* inserts the handlers, once each and after the cases already there, only when
\* the index has no read_file case; and a run on an index already patched changes
\* nothing, so that no case gains an occurrence by patching again.
PatchIsIdempotent ==
    [][PatchApply =>
          /\ "read_file" \in Range(indexContent.cases) =>
                /\ indexContent'.cases = indexContent.cases
                /\ indexContent.hasAllTools => indexContent'.ALL_TOOLS = ALL_TOOLS
          /\ indexContent'.cases # indexContent.cases =>
                /\ "read_file" \notin Range(indexContent.cases)
                /\ \A tool \in Range(FilesystemHandlers) :
                      CasesOf(indexContent', tool) = CasesOf(indexContent, tool) + 1
                /\ SubSeq(indexContent'.cases, 1, Len(indexContent.cases)) = indexContent.cases
                /\ Len(indexContent'.cases) = Len(indexContent.cases) + Len(FilesystemHandlers)
          /\ pure.n >= 1 =>
                /\ indexContent' = indexContent
                /\ ApplyPatch(ApplyPatch(indexContent)) = ApplyPatch(indexContent)]_vars

\* C25 witness: the index that held the Morph tools only has been patched twice and
\* has each of the 15 cases once
PatchedTwice ==
    /\ pure.fn = "patch"
    /\ pure.n = 2
    /\ indexContent.cases = MorphTools \o FilesystemHandlers
    /\ indexContent.ALL_TOOLS = ALL_TOOLS
    /\ \A tool \in Range(ALL_TOOLS) : CasesOf(indexContent, tool) = 1


\* C26: a call naming one of the 15 tools goes through the case of that tool,
\* whatever ENABLED_TOOLS holds and whether or not the listing returns the tool: it
\* ends as it does for an enabled tool (the answer of list_allowed_directories, or
\* the failure of the argument parsing), never in the default case; and the listing
\* returns only tools of the enabled set, and none that requires an API key when
\* no key is configured.
DispatchIgnoresEnabledTools ==
    \A t \in Tasks :
        /\ (/\ tasks[t].pc = "done"
            /\ tasks[t].op = "call_tool"
            /\ tasks[t].args.name \in Range(ALL_TOOLS))
           => /\ tasks[t].result.err # "Unknown tool"
              /\ tasks[t].args.name = "list_allowed_directories"
                    => tasks[t].result = ListAllowedDirectories(allowedDirectories)
              /\ tasks[t].args.name # "list_allowed_directories"
                    => tasks[t].result = Err("Invalid arguments")
        /\ (tasks[t].pc = "done" /\ tasks[t].op = "list_tools")
           => /\ Range(tasks[t].result.val) \subseteq Range(ENABLED_TOOLS)
              /\ ~MORPH_API_KEY =>
                    \A i \in 1..Len(allTools) :
                        allTools[i].requiresApiKey
                            => allTools[i].name \notin Range(tasks[t].result.val)

\* C26 witness: with ENABLED_TOOLS=codebase_search, list_allowed_directories has
\* been called and has answered with the allowed directories
DisabledToolAnswered ==
    /\ env.ENABLED_TOOLS = <<"codebase_search">>
    /\ \E t \in Tasks :
          /\ tasks[t].pc = "done"
          /\ tasks[t].op = "call_tool"
          /\ tasks[t].args.name = "list_allowed_directories"
          /\ tasks[t].args.name \notin Range(ENABLED_TOOLS)
          /\ tasks[t].args.name \notin Range(ListTools(ENABLED_TOOLS, MORPH_API_KEY))
          /\ tasks[t].result.ok


\* C27: no step of a root update makes a non-empty RootSet empty: the RootSet
\* changes only by the assignment of a non-empty list of validated candidates or of
\* the single fallback workspace root, and an update whose candidates yield no
\* valid directory while workspace discovery is disabled leaves the RootSet as it was.
RootSetNeverEmptied ==
    /\ [](allowedDirectories # <<>>)
    /\ [][/\ allowedDirectories # <<>> => allowedDirectories' # <<>>
          /\ allowedDirectories' # allowedDirectories =>
                \E t \in Tasks :
                    \/ /\ tasks[t].pc = "validated"
                       /\ Len(tasks[t].payload) > 0
                       /\ allowedDirectories' = tasks[t].payload
                    \/ /\ tasks[t].pc = "detecting"
                       /\ workspaceMode
                       /\ Len(allowedDirectories') = 1
          /\ \A t \in Tasks :
                (/\ tasks[t].op = "roots_list_changed"
                 /\ tasks[t].pc = "validated"
                 /\ tasks'[t].pc # "validated"
                 /\ Len(tasks[t].payload) = 0)
                => /\ allowedDirectories' = allowedDirectories
                   /\ ~workspaceMode => tasks'[t].pc = "done"]_vars

\* C27 witness: with workspace discovery disabled, an update whose only candidate
\* is the file /ws/a has ended and the RootSet is the one of startup
RootsLeftAsTheyWere ==
    /\ ~workspaceMode
    /\ allowedDirectories = StartupDirectories(InitFs, <<pWs>>, FALSE)
    /\ allowedDirectories # <<>>
    /\ \E t \in Tasks :
          /\ tasks[t].pc = "done"
          /\ tasks[t].op = "roots_list_changed"
          /\ tasks[t].args.roots = <<pA>>
          /\ tasks[t].payload = <<>>


(***************************************************************************)
(* Patches of a file /ws/a that holds CRLF line endings                    *)
(***************************************************************************)
CrlfContents ==
    { <<"a", CR, NL, "b", CR, NL>>,
      <<"a", CR, NL, "b">>,
      <<"a", NL, "b", CR, NL>>,
      <<"a", CR, "b", CR, NL>>,
      <<"a", NL, "b", NL>> }

CrlfEdits ==
    { <<>>,
      << Edit(<<"b">>, <<"x">>) >>,
      << Edit(<<"a", CR, NL, "b">>, <<"a", CR, NL, "y">>) >>,
      << Edit(<<"z">>, <<"x">>) >> }

InitCrlf ==
    /\ \E content \in CrlfContents :
          fs = [InitFs EXCEPT ![pA].content = Utf8Encode(content)]
    /\ workspaceMode = TRUE
    /\ allowedDirectories = StartupDirectories(InitFs, <<pWs>>, TRUE)
    /\ tasks = [t \in Tasks |-> Idle]
    /\ calls = 0
    /\ lastWrite = NoWrite
    /\ pure = NoPure
    /\ env = StartupEnv
    /\ indexContent = BuiltIndex

NextCrlf ==
    \/ \E edits \in CrlfEdits, dryRun \in BOOLEAN :
          /\ calls < 2
          /\ EditFileCall(1, pA, edits, dryRun)
    \/ EditFileStep(1)
    \/ TempOpen(1)
    \/ WriteFill(1)
    \/ TempRename(1)
    \/ Retire(1)

SpecCrlf == InitCrlf /\ [][NextCrlf]_vars

\* the text holds a carriage return directly followed by a line feed
HasCrlf(text) == \E i \in 1..(Len(text) - 1) : text[i] = CR /\ text[i + 1] = NL

\* C28: a patch of /ws/a that has succeeded and is not a dry run leaves the file
\* holding the edited text of the original with every CRLF replaced by LF, so no
\* CRLF is left in it, inside or outside the edited lines; with an empty edit list
\* the file holds the original with every CRLF replaced by LF, which differs from the
\* original when the original holds a CRLF, and the returned diff has no hunk.
PatchPersistsNormalised ==
    \A t \in Tasks :
        (/\ tasks[t].pc = "done"
         /\ tasks[t].op = "tiny_edit_file"
         /\ tasks[t].result.ok
         /\ ~tasks[t].args.dryRun)
        => LET original == Utf8Decode(tasks[t].original)
               persisted == Utf8Decode(fs[pA].content)
           IN  /\ ~HasCrlf(persisted)
               /\ \A i \in 1..Len(persisted) :
                     persisted[i] = CR => \E j \in 1..Len(original) : original[j] = CR
               /\ tasks[t].args.edits = <<>> =>
                     /\ Len(persisted) = Len(original)
                            - Cardinality({i \in 1..(Len(original) - 1) :
                                             original[i] = CR /\ original[i + 1] = NL})
                     /\ HasCrlf(original) => fs[pA].content # tasks[t].original
                     /\ ~Includes(tasks[t].result.val, <<"@", "@">>)
                     /\ ~Includes(tasks[t].result.val, <<NL, "-", "a">>)
                     /\ ~Includes(tasks[t].result.val, <<NL, "+", "a">>)

\* C28 witness: a patch with no edits of the file "a CRLF b CRLF" has succeeded; the
\* file holds "a LF b LF"
EmptyPatchRewroteFile ==
    \E t \in Tasks :
        /\ tasks[t].pc = "done"
        /\ tasks[t].op = "tiny_edit_file"
        /\ tasks[t].result.ok
        /\ ~tasks[t].args.dryRun
        /\ tasks[t].args.edits = <<>>
        /\ tasks[t].original = Utf8Encode(<<"a", CR, NL, "b", CR, NL>>)
        /\ fs[pA].content = Utf8Encode(<<"a", NL, "b", NL>>)


(***************************************************************************)
(* Reads with head or tail given as 0                                      *)
(***************************************************************************)
\* <<head, tail>>
ZeroOptions ==
    {<<Some(0), None>>, <<None, Some(0)>>, <<Some(0), Some(0)>>, <<Some(0), Some(1)>>,
     <<Some(1), Some(0)>>, <<Some(1), Some(1)>>, <<Some(1), None>>, <<None, None>>}

InitRead ==
    /\ fs = InitFs
    /\ workspaceMode = TRUE
    /\ allowedDirectories = StartupDirectories(InitFs, <<pWs>>, TRUE)
    /\ tasks = [t \in Tasks |-> Idle]
    /\ calls = 0
    /\ lastWrite = NoWrite
    /\ pure = NoPure
    /\ env = StartupEnv
    /\ indexContent = BuiltIndex

NextRead ==
    \E t \in Tasks :
        \/ \E path \in {pA, pB, pN}, o \in ZeroOptions : ReadFileCall(t, path, o[1], o[2])
        \/ ReadFileStep(t)
        \/ Retire(t)

SpecRead == InitRead /\ [][NextRead]_vars

IsZero(opt) == opt = Some(0)

pU == pD \o << <<"u">> >>
pM == <<nWs, <<"m">> >>
pP == <<nWs, <<"p">> >>

\* /ws/k points to itself, /ws/m and /ws/p to each other, /ws/d/u to /ws
LoopFs ==
    Put(Put(Put(Put(InitFs, pK, LinkNode(pK)), pM, LinkNode(pP)), pP, LinkNode(pM)),
        pU, LinkNode(pWs))

NoLoop ==
    [fn |-> "none", text |-> <<>>, n |-> 0, out |-> <<>>, position |-> 0,
     lines |-> <<>>, buffer |-> <<>>, stack |-> <<>>, visited |-> <<>>,
     rootPath |-> <<>>, pattern |-> <<>>, excludePatterns |-> <<>>]

InitLoops ==
    /\ fs = LoopFs
    /\ workspaceMode = TRUE
    /\ allowedDirectories = StartupDirectories(LoopFs, <<pWs>>, TRUE)
    /\ tasks = [t \in Tasks |-> Idle]
    /\ calls = 0
    /\ lastWrite = NoWrite
    /\ \E text \in StreamTexts, n \in 1..MaxLines :
          pure = [NoLoop EXCEPT !.text = text, !.n = n]
    /\ env = StartupEnv
    /\ indexContent = BuiltIndex

LoopFrame == <<fs, allowedDirectories, workspaceMode, tasks, calls, lastWrite, env, indexContent>>

\* part_001:282-285, part_001:314  searchFiles calls search(rootPath), which lists it
SearchStart(rootPath, pattern, excludePatterns) ==
    LET entries == FsReaddir(fs, rootPath)
    IN  /\ pure.fn = "none"
        /\ pure.text = <<>>
        /\ pure.n = 1
        /\ pure' = IF entries.ok
                   THEN [pure EXCEPT !.fn = "search", !.rootPath = rootPath,
                                     !.pattern = pattern,
                                     !.excludePatterns = excludePatterns,
                                     !.visited = <<rootPath>>,
                                     !.stack = <<[currentPath |-> rootPath,
                                                  entries |-> entries.val]>>]
                   ELSE [pure EXCEPT !.fn = "searched", !.rootPath = rootPath]
        /\ UNCHANGED LoopFrame

\* part_001:286-311  one entry of the directory the innermost call is listing
SearchEntry ==
    LET depth == Len(pure.stack)
        top == pure.stack[depth]
        entry == top.entries[1]
        fullPath == top.currentPath \o <<entry.name>>
        valid == ValidatePath(fs, fullPath)
        relativePath == Drop(fullPath, Len(pure.rootPath))
        skipped == ~valid.ok \/ ShouldExclude(relativePath, pure.excludePatterns)
        below == FsReaddir(fs, fullPath)
        found == IF ~skipped /\ Includes(ToLowerCase(entry.name), ToLowerCase(pure.pattern))
                 THEN <<fullPath>> ELSE <<>>
        rest == [pure.stack EXCEPT ![depth].entries = Tail(top.entries)]
    IN  /\ pure.fn = "search"
        /\ depth > 0
        /\ Len(top.entries) > 0
        /\ pure' = IF ~skipped /\ entry.isDirectory /\ below.ok
                   THEN [pure EXCEPT !.out = @ \o found,
                                     !.visited = Append(@, fullPath),
                                     !.stack = Append(rest, [currentPath |-> fullPath,
                                                             entries |-> below.val])]
                   ELSE [pure EXCEPT !.out = @ \o found, !.stack = rest]
        /\ UNCHANGED LoopFrame

\* part_001:286, part_001:312  the loop over the entries has ended: search returns
SearchReturn ==
    LET depth == Len(pure.stack)
    IN  /\ pure.fn = "search"
        /\ depth > 0
        /\ Len(pure.stack[depth].entries) = 0
        /\ pure' = [pure EXCEPT !.stack = SubSeq(@, 1, depth - 1),
                                !.fn = IF depth = 1 THEN "searched" ELSE "search"]
        /\ UNCHANGED LoopFrame

\* part_001:413-427
TailStart ==
    LET bytes == Utf8Encode(pure.text)
    IN  /\ pure.fn = "none"
        /\ pure' = IF Len(bytes) = 0 THEN [pure EXCEPT !.fn = "tailed"]
                   ELSE [pure EXCEPT !.fn = "tail", !.position = Len(bytes)]
        /\ UNCHANGED LoopFrame

\* part_001:428-450  one iteration of the loop of tailFile
TailIterate ==
    LET bytes == Utf8Encode(pure.text)
        size == Min(CHUNK_SIZE, pure.position)
        newPosition == pure.position - size
        readData == Utf8Decode(SubSeq(bytes, newPosition + 1, newPosition + size))
        chunkText == readData \o pure.buffer
        split == Split(NormalizeLineEndings(chunkText), NL)
        chunkLines == IF newPosition > 0 THEN Tail(split) ELSE split
        carried == IF newPosition > 0 THEN split[1] ELSE pure.buffer
        wanted == Min(Len(chunkLines), pure.n - Len(pure.lines))
    IN  /\ pure.fn = "tail"
        /\ pure.position > 0
        /\ Len(pure.lines) < pure.n
        /\ pure' = [pure EXCEPT !.position = newPosition,
                                !.lines = LastN(chunkLines, wanted) \o @,
                                !.buffer = carried]
        /\ UNCHANGED LoopFrame

\* part_001:428, part_001:451
TailReturn ==
    /\ pure.fn = "tail"
    /\ ~(pure.position > 0 /\ Len(pure.lines) < pure.n)
    /\ pure' = [pure EXCEPT !.fn = "tailed", !.out = Join(pure.lines, <<NL>>)]
    /\ UNCHANGED LoopFrame

\* part_001:458-464
HeadStart ==
    /\ pure.fn = "none"
    /\ pure' = [pure EXCEPT !.fn = "head"]
    /\ UNCHANGED LoopFrame

\* part_001:466-482  one iteration of the loop of headFile that has read bytes
HeadIterate ==
    LET bytes == Utf8Encode(pure.text)
        size == Min(HEAD_CHUNK_SIZE, Len(bytes) - pure.position)
        grown == pure.buffer \o Utf8Decode(SubSeq(bytes, pure.position + 1, pure.position + size))
        newLineIndex == LastIndexOf(grown, <<NL>>)
        completeLines == Split(SubSeq(grown, 1, newLineIndex - 1), NL)
    IN  /\ pure.fn = "head"
        /\ Len(pure.lines) < pure.n
        /\ size > 0
        /\ pure' = IF newLineIndex # 0
                   THEN [pure EXCEPT !.position = @ + size,
                                     !.lines = @ \o Take(completeLines, pure.n - Len(pure.lines)),
                                     !.buffer = Drop(grown, newLineIndex)]
                   ELSE [pure EXCEPT !.position = @ + size, !.buffer = grown]
        /\ UNCHANGED LoopFrame

\* part_001:466-469, part_001:483-487  the loop has ended, on enough lines or on a
\* read of no bytes; what is left in the buffer is the last line
HeadReturn ==
    LET bytes == Utf8Encode(pure.text)
        lines == IF Len(pure.buffer) > 0 /\ Len(pure.lines) < pure.n
                 THEN pure.lines \o <<pure.buffer>> ELSE pure.lines
    IN  /\ pure.fn = "head"
        /\ ~(Len(pure.lines) < pure.n /\ Len(bytes) - pure.position > 0)
        /\ pure' = [pure EXCEPT !.fn = "headed", !.out = Join(lines, <<NL>>)]
        /\ UNCHANGED LoopFrame

LoopRoots == {pWs, pD, pH, pA}
LoopPatterns == { <<"a">>, <<"s">> }
LoopExcludes == { <<>>, << <<"d">> >>, << <<".", "g", "*">> >> }

NextLoops ==
    \/ \E rootPath \in LoopRoots, pattern \in LoopPatterns,
          excludePatterns \in LoopExcludes :
          SearchStart(rootPath, pattern, excludePatterns)
    \/ SearchEntry
    \/ SearchReturn
    \/ TailStart
    \/ TailIterate
    \/ TailReturn
    \/ HeadStart
    \/ HeadIterate
    \/ HeadReturn

SpecLoops == InitLoops /\ [][NextLoops]_vars

\* the real directories of the tree
RealDirectories == {p \in DOMAIN fs : fs[p].kind = "dir"}

\* the most entries a directory of the tree holds
MostEntries ==
    LET counts == {Cardinality(Children(fs, p)) : p \in RealDirectories}
    IN  CHOOSE c \in counts : \A d \in counts : d <= c

RECURSIVE EntriesLeft(_)
\* the entries the calls of search in progress have still to look at
EntriesLeft(stack) ==
    IF Len(stack) = 0 THEN 0 ELSE Len(stack[1].entries) + EntriesLeft(Tail(stack))

\* what the loop in progress has left to do at most: for the search, every directory
\* not yet listed counts for its listing and its entries; for tailFile the bytes before
\* the read position, for headFile the bytes after it
WorkLeft ==
    CASE pure.fn = "tail" -> pure.position + 1
      [] pure.fn = "head" -> Len(Utf8Encode(pure.text)) - pure.position + 1
      [] pure.fn \in {"search", "searched"} ->
            Cardinality(RealDirectories \ Range(pure.visited)) * (MostEntries + 2)
            + EntriesLeft(pure.stack) + Len(pure.stack)
      [] OTHER -> 0

\* C30: no search and no tail or head read runs forever: every step of a loop in
\* progress lowers the work left, which is never negative, and a loop in progress can
\* always take a step; search is called at most once on each directory, and only on
\* directories reached without passing a symbolic link, also where links point to
\* themselves, to each other or to an ancestor; each iteration of the tail loop
\* lowers the read position, never below 0, and each iteration of the head loop that
\* has read bytes raises it, never beyond the size of the file; what the loops
\* return is what tailFile and headFile return.
LoopsTerminate ==
    /\ [](/\ \A i, j \in 1..Len(pure.visited) : i # j => pure.visited[i] # pure.visited[j]
          /\ \A i \in 1..Len(pure.visited) :
                \A k \in 0..Len(pure.visited[i]) :
                      fs[SubSeq(pure.visited[i], 1, k)].kind = "dir"
          /\ WorkLeft >= 0
          /\ pure.fn = "search" => Len(pure.stack) > 0
          /\ pure.fn = "searched" => Len(pure.stack) = 0
          /\ pure.fn = "tailed" => pure.out = TailFile(Utf8Encode(pure.text), pure.n)
          /\ pure.fn = "headed" => pure.out = HeadFile(Utf8Encode(pure.text), pure.n))
    /\ [][/\ pure.fn \in {"search", "tail", "head"} => WorkLeft' < WorkLeft
          /\ (pure.fn = "tail" /\ pure'.fn = "tail")
                => pure'.position < pure.position /\ pure'.position >= 0
          /\ (pure.fn = "head" /\ pure'.fn = "head")
                => /\ pure'.position > pure.position
                   /\ pure'.position <= Len(Utf8Encode(pure.text))]_vars

\* C30 witness: the search of /ws has returned; it has listed /ws, /ws/.git and
\* /ws/d and none of the links /ws/k, /ws/m, /ws/p, /ws/l and /ws/d/u
SearchReturnedPastLinks ==
    /\ pure.fn = "searched"
    /\ pure.rootPath = pWs
    /\ pure.excludePatterns = <<>>
    /\ Range(pure.visited) = {pWs, pGit, pD}
    /\ \A p \in {pK, pM, pP, pL, pU} : fs[p].kind = "link"

====
